---------------------------- MODULE Spec2Model ----------------------------
(***************************************************************************)
(* Model of the FINTARA Letter-of-Credit STP backend (server routes in     *)
(* src/unnamed/part_001, generator in src/lc-generator.js).                *)
(*                                                                         *)
(* Numbers.  The JavaScript code computes in IEEE doubles.  The model      *)
(* keeps amounts as integers and a haircut as an integer percentage, and   *)
(* carries an eligible value in hundredths (value * (100 - pct)).  For     *)
(* integer amounts and the seven margins of COLLATERAL_MARGINS the double  *)
(* product value * (1 - margin) lies within one rounding of the exact      *)
(* product, which for the amounts considered here never carries it across  *)
(* lcAmount or 0.75 * lcAmount: every comparison below agrees with the one *)
(* the code makes.                                                         *)
(*                                                                         *)
(* Strings whose content the code inspects (toUpperCase, includes, trim)   *)
(* are sequences of one-character strings.                                 *)
(***************************************************************************)
EXTENDS Integers, Sequences, FiniteSets, TLC

VARIABLES
    dargs,      \* lcDecision: the arguments of the call
    dret,       \* lcDecision: the value returned (Null before the call)
    dprev       \* lcDecision: arguments and result of the previous call

decideVars == <<dargs, dret, dprev>>

VARIABLES
    cargs,      \* runDiscrepancyCheck: the arguments of the call
    cret        \* runDiscrepancyCheck: the value returned (Null before the call)

checkVars == <<cargs, cret>>

VARIABLES
    apps,        \* table lc_applications: ref -> row
    actions,     \* table officer_actions, in insertion order
    amendments,  \* table amendments, in insertion order
    notifications, \* table notifications, in insertion order
    clock,       \* the server's wall clock (new Date())
    pc,          \* per client: the await its request in flight is suspended at
    loc,         \* per client: the local variables of the handler in flight
    resp,        \* per client: the last response received
    issued,      \* number of requests issued so far, per route
    lastRead,    \* history: per ref, the inputs the latest decision run read
    decidedFrom  \* history: per ref, the inputs read by the run that wrote last

VARIABLES
    presentations, \* table document_presentations, in insertion order (id = position)
    discrepancies, \* table discrepancies, in insertion order
    examined       \* history: per ref, what the last completed examination left

examVars == <<presentations, discrepancies, examined>>

VARIABLES
    gargs,      \* lc-generator: the application record `data` and the day of the call
    gret        \* lc-generator: what each function returned (Null before its call)

genVars == <<gargs, gret>>

dbVars == <<apps, actions, amendments, notifications>>

srvVars == <<dbVars, clock, pc, loc, resp, issued, lastRead, decidedFrom>>

vars == <<decideVars, checkVars, srvVars, examVars, genVars>>

\* JavaScript null / SQL NULL, and a present value
Null == << >>

Some(v) == <<v>>

---------------------------------------------------------------------------
(* Strings as character sequences *)

UpperChar(c) ==
    CASE c = "a" -> "A" [] c = "b" -> "B" [] c = "c" -> "C" [] c = "d" -> "D"
      [] c = "e" -> "E" [] c = "f" -> "F" [] c = "g" -> "G" [] c = "h" -> "H"
      [] c = "i" -> "I" [] c = "j" -> "J" [] c = "k" -> "K" [] c = "l" -> "L"
      [] c = "m" -> "M" [] c = "n" -> "N" [] c = "o" -> "O" [] c = "p" -> "P"
      [] c = "q" -> "Q" [] c = "r" -> "R" [] c = "s" -> "S" [] c = "t" -> "T"
      [] c = "u" -> "U" [] c = "v" -> "V" [] c = "w" -> "W" [] c = "x" -> "X"
      [] c = "y" -> "Y" [] c = "z" -> "Z" [] OTHER -> c

LowerChar(c) ==
    CASE c = "A" -> "a" [] c = "B" -> "b" [] c = "C" -> "c" [] c = "D" -> "d"
      [] c = "E" -> "e" [] c = "F" -> "f" [] c = "G" -> "g" [] c = "H" -> "h"
      [] c = "I" -> "i" [] c = "J" -> "j" [] c = "K" -> "k" [] c = "L" -> "l"
      [] c = "M" -> "m" [] c = "N" -> "n" [] c = "O" -> "o" [] c = "P" -> "p"
      [] c = "Q" -> "q" [] c = "R" -> "r" [] c = "S" -> "s" [] c = "T" -> "t"
      [] c = "U" -> "u" [] c = "V" -> "v" [] c = "W" -> "w" [] c = "X" -> "x"
      [] c = "Y" -> "y" [] c = "Z" -> "z" [] OTHER -> c

\* String.prototype.toUpperCase
ToUpperCase(s) == [i \in 1..Len(s) |-> UpperChar(s[i])]

\* String.prototype.toLowerCase
ToLowerCase(s) == [i \in 1..Len(s) |-> LowerChar(s[i])]

\* String.prototype.trim, for the blank as the only white space
RECURSIVE TrimStart(_)
TrimStart(s) == IF s # << >> /\ Head(s) = " " THEN TrimStart(Tail(s)) ELSE s

RECURSIVE TrimEnd(_)
TrimEnd(s) ==
    IF s # << >> /\ s[Len(s)] = " " THEN TrimEnd(SubSeq(s, 1, Len(s) - 1)) ELSE s

Trim(s) == TrimEnd(TrimStart(s))

\* String.prototype.includes
Includes(s, sub) ==
    \E i \in 0..(Len(s) - Len(sub)) : SubSeq(s, i + 1, i + Len(sub)) = sub

\* s.split(sep)[0]
RECURSIVE SplitFirst(_, _)
SplitFirst(s, sep) ==
    IF s = << >> \/ Head(s) = sep THEN << >> ELSE <<Head(s)>> \o SplitFirst(Tail(s), sep)

---------------------------------------------------------------------------
(* Values read from and written to SQLite columns *)

Num(n) == [k |-> "num", n |-> n, s |-> << >>]

Text(s) == [k |-> "text", n |-> 0, s |-> s]

NullV == [k |-> "null", n |-> 0, s |-> << >>]

\* the text 'YYYY-MM-DD' of the day numbered `day` (days count from the day the
\* server started; earlier days are negative)
DateText(day) == [k |-> "date", n |-> day, s |-> << >>]

\* the text JSON.stringify(items) of an array of strings
JsonArray(items) == [k |-> "json", n |-> 0, s |-> items]

\* JavaScript truthiness of a column value
Truthy(v) ==
    CASE v.k = "num" -> v.n # 0
      [] v.k = "text" -> v.s # << >>
      [] v.k = "date" -> TRUE
      [] v.k = "json" -> TRUE
      [] OTHER -> FALSE

\* a || b
JsOr(a, b) == IF Truthy(a) THEN a ELSE b

DigitVal(c) ==
    CASE c = "0" -> 0 [] c = "1" -> 1 [] c = "2" -> 2 [] c = "3" -> 3 [] c = "4" -> 4
      [] c = "5" -> 5 [] c = "6" -> 6 [] c = "7" -> 7 [] c = "8" -> 8 [] c = "9" -> 9
      [] OTHER -> -1

\* the number of leading decimal digits of s
RECURSIVE DigitPrefixLen(_)
DigitPrefixLen(s) ==
    IF s = << >> \/ DigitVal(Head(s)) < 0 THEN 0 ELSE 1 + DigitPrefixLen(Tail(s))

\* the value of a sequence of decimal digits
RECURSIVE DigitsValue(_)
DigitsValue(s) ==
    IF s = << >> THEN 0 ELSE 10 * DigitsValue(SubSeq(s, 1, Len(s) - 1)) + DigitVal(s[Len(s)])

\* parseFloat on a column value: Some(n), or Null for NaN.  A text is read, after
\* its leading white space, up to the end of its leading digits (the model's texts
\* hold no sign, point or exponent).
ParseFloat(v) ==
    CASE v.k = "num" -> Some(v.n)
      [] v.k = "text" ->
            LET t == TrimStart(v.s)
            IN  IF DigitPrefixLen(t) = 0 THEN Null
                ELSE Some(DigitsValue(SubSeq(t, 1, DigitPrefixLen(t))))
      [] OTHER -> Null

\* parseFloat(v) || 0
ParseFloatOr0(v) == IF ParseFloat(v) = Null THEN 0 ELSE ParseFloat(v)[1]

\* parseFloat(v) || dflt: NaN and 0 are both falsy
ParseFloatOr(v, dflt) ==
    IF ParseFloat(v) = Null \/ ParseFloat(v)[1] = 0 THEN dflt ELSE ParseFloat(v)[1]

\* new Date(v).getTime() in days: Some(day), or Null for an Invalid Date
DateOf(v) == IF v.k = "date" THEN Some(v.n) ELSE Null

\* safeJSON(v, fb)
safeJSON(v, fb) == IF v.k = "json" THEN v.s ELSE fb

\* the value a REAL column stores for a bound text: a well-formed number is
\* converted, any other text is kept as text
RealAffinity(v) ==
    IF v.k = "text" /\ v.s # << >> /\ DigitPrefixLen(v.s) = Len(v.s)
    THEN Num(DigitsValue(v.s))
    ELSE v

---------------------------------------------------------------------------
(* STEP 9 - rule engine *)

FD == <<"F", "D">>

CASH == <<"C", "A", "S", "H">>

GOVT_BOND == <<"G", "O", "V", "T", "_", "B", "O", "N", "D">>

LIQUID_SECURITY ==
    <<"L", "I", "Q", "U", "I", "D", "_", "S", "E", "C", "U", "R", "I", "T", "Y">>

RECEIVABLES == <<"R", "E", "C", "E", "I", "V", "A", "B", "L", "E", "S">>

PROPERTY == <<"P", "R", "O", "P", "E", "R", "T", "Y">>

MACHINERY == <<"M", "A", "C", "H", "I", "N", "E", "R", "Y">>

NONE == <<"N", "O", "N", "E">>

\* The haircut table, each margin as a percentage (0.15 is 15).
COLLATERAL_MARGINS ==
    (FD :> 0) @@ (LIQUID_SECURITY :> 15) @@ (GOVT_BOND :> 10) @@ (CASH :> 0)
      @@ (PROPERTY :> 40) @@ (MACHINERY :> 50) @@ (RECEIVABLES :> 25)

\* 100 * (1 - margin)
KeptPct(m) == 100 - m

\* the first comparison strict
MutDecisionStrict(eligible100, lcAmount) ==
    IF eligible100 > 100 * lcAmount THEN "YES"
    ELSE IF 4 * eligible100 >= 300 * lcAmount THEN "REVIEW"
    ELSE "NO"

\* the two lower outcomes exchanged
MutDecisionSwapped(eligible100, lcAmount) ==
    IF eligible100 >= 100 * lcAmount THEN "YES"
    ELSE IF 4 * eligible100 >= 300 * lcAmount THEN "NO"
    ELSE "REVIEW"

\* eligibleValue >= lcAmount ? 'YES' : (eligibleValue >= lcAmount * 0.75 ? 'REVIEW' : 'NO')
\* on the eligible value in hundredths
DecisionOf(eligible100, lcAmount) ==
    IF eligible100 >= 100 * lcAmount THEN "YES"
    ELSE IF 4 * eligible100 >= 300 * lcAmount THEN "REVIEW"
    ELSE "NO"

\* The reason text: its wording (kind) and the values substituted into it.
ReasonOf(decision, eligible100, lcAmount) ==
    [kind |-> CASE decision = "YES" -> "Collateral sufficient"
                [] decision = "REVIEW" -> "Collateral partially covers LC"
                [] OTHER -> "Insufficient collateral",
     type |-> Null, eligible |-> Some(eligible100), lcAmount |-> Some(lcAmount)]

\* an unknown type declined instead of referred
MutUnknownType(collateralType) ==
    [decision |-> "NO",
     reason |-> [kind |-> "Unknown collateral type", type |-> Some(collateralType),
                 eligible |-> Null, lcAmount |-> Null],
     margin |-> Null, eligibleValue |-> 0]

UnknownType(collateralType) ==
    [decision |-> "REVIEW",
     reason |-> [kind |-> "Unknown collateral type", type |-> Some(collateralType),
                 eligible |-> Null, lcAmount |-> Null],
     margin |-> Null, eligibleValue |-> 0]

\* lcDecision(collateralType, collateralValue, lcAmount); eligibleValue in hundredths.
\* The `in` test is over the table's own keys: the route upper-cases the type
\* (line 623) and every name inherited from Object.prototype has a lower-case letter.
lcDecision(collateralType, collateralValue, lcAmount) ==
    IF collateralType \notin DOMAIN COLLATERAL_MARGINS
    THEN UnknownType(collateralType)
    ELSE LET margin == COLLATERAL_MARGINS[collateralType]
             eligibleValue == collateralValue * KeptPct(margin)
             decision == DecisionOf(eligibleValue, lcAmount)
         IN  [decision |-> decision,
              reason |-> ReasonOf(decision, eligibleValue, lcAmount),
              margin |-> Some(margin), eligibleValue |-> eligibleValue]

---------------------------------------------------------------------------
(* Bounds of the inputs *)

MaxValue == 8

MaxAmount == 8

\* the collateral values and LC amounts of the demo data, beside the small range
SeedValues == {200, 350, 500}

SeedAmounts == {425000, 1250000, 3700000}

Values == (0..MaxValue) \cup SeedValues

Amounts == (0..MaxAmount) \cup SeedAmounts

GOLD == <<"G", "O", "L", "D">>

KnownTypes == DOMAIN COLLATERAL_MARGINS

DecideTypes == KnownTypes \cup {NONE, GOLD}

---------------------------------------------------------------------------
(* Table lc_applications *)

\* A row with every modelled column NULL.  Columns the handlers below neither
\* read nor write are left out.
BlankRow ==
    [ref |-> "", status |-> "Pending Review",
     lc_amount |-> NullV, tolerance_pct |-> NullV, lc_currency |-> NullV,
     lc_expiry_date |-> NullV, latest_ship_date |-> NullV,
     goods_desc |-> NullV, port_loading |-> NullV, port_discharge |-> NullV,
     payment_terms |-> NullV, special_instructions |-> NullV,
     advising_bank |-> NullV, beneficiary_name |-> NullV,
     collateral_primary_type |-> NullV, collateral_value |-> NullV,
     fd_amount |-> NullV, sec_market_value |-> NullV, cash_margin_amount |-> NullV,
     documents |-> NullV, doc_presentation_status |-> Null,
     haircut_pct |-> 0, eligible_collateral_value |-> 0,
     stp_decision |-> "PENDING", stp_reason |-> Null,
     stp_run_at |-> Null, stp_run_by |-> Null,
     mt700_draft |-> Null, mt700_generated_at |-> Null,
     amendment_count |-> NullV,
     officer_notes |-> Null, action_date |-> Null, action_by |-> Null,
     payment_status |-> Null, lc_closed_at |-> Null,
     kyc_status |-> "Pending", sanctions_applicant |-> "Pending",
     sanctions_beneficiary |-> "Pending", sanctions_country_risk |-> "Pending",
     aml_status |-> "Pending",
     compliance_cleared_at |-> Null, compliance_cleared_by |-> Null]

\* a stored reason that is not one of lcDecision's
SeedReason(kind) == Some([kind |-> kind, type |-> Null, eligible |-> Null, lcAmount |-> Null])

\* The five DEMO rows of POST /api/seed (columns as in BlankRow; an eligible value
\* in hundredths).
Seed71842 ==
    [BlankRow EXCEPT !.ref = "BRC-LC-2024-71842", !.status = "Pending Review",
        !.lc_amount = Num(1250000), !.tolerance_pct = Num(5),
        !.collateral_primary_type = Text(FD), !.collateral_value = Num(200),
        !.fd_amount = Num(200),
        !.stp_decision = "YES", !.stp_reason = SeedReason("FD collateral sufficient"),
        !.haircut_pct = 0, !.eligible_collateral_value = 20000,
        !.kyc_status = "Cleared", !.sanctions_applicant = "Cleared",
        !.sanctions_beneficiary = "Cleared", !.sanctions_country_risk = "Cleared",
        !.aml_status = "Cleared"]

Seed64391 ==
    [BlankRow EXCEPT !.ref = "BRC-LC-2024-64391", !.status = "Under Review",
        !.lc_amount = Num(3700000), !.tolerance_pct = Num(10),
        !.collateral_primary_type = Text(GOVT_BOND), !.collateral_value = Num(500),
        !.sec_market_value = Num(500),
        !.stp_decision = "REVIEW",
        !.stp_reason = SeedReason("Collateral partially covers LC"),
        !.haircut_pct = 10, !.eligible_collateral_value = 45000,
        !.action_by = Some("Riya Mehta"), !.officer_notes = Some("Under review"),
        !.kyc_status = "Cleared", !.sanctions_applicant = "Cleared",
        !.sanctions_country_risk = "Cleared"]

Seed50128 ==
    [BlankRow EXCEPT !.ref = "BRC-LC-2024-50128", !.status = "Approved",
        !.lc_amount = Num(180000000), !.tolerance_pct = Num(5),
        !.collateral_primary_type = Text(FD), !.collateral_value = Num(350),
        !.fd_amount = Num(350),
        !.stp_decision = "YES",
        !.haircut_pct = 0, !.eligible_collateral_value = 35000,
        !.action_date = Some(0), !.action_by = Some("Riya Mehta"),
        !.officer_notes = Some("Approved"),
        !.kyc_status = "Cleared", !.sanctions_applicant = "Cleared",
        !.sanctions_beneficiary = "Cleared", !.sanctions_country_risk = "Cleared",
        !.aml_status = "Cleared"]

Seed43900 ==
    [BlankRow EXCEPT !.ref = "BRC-LC-2024-43900", !.status = "More Info Required",
        !.lc_amount = Num(425000), !.tolerance_pct = Num(5),
        !.collateral_primary_type = Text(NONE), !.collateral_value = Num(0),
        !.stp_decision = "NO", !.stp_reason = SeedReason("Insufficient collateral"),
        !.haircut_pct = 0, !.eligible_collateral_value = 0,
        !.action_date = Some(0), !.action_by = Some("Riya Mehta"),
        !.officer_notes = Some("Require 3yr financials"),
        !.sanctions_applicant = "Cleared", !.sanctions_beneficiary = "Cleared",
        !.sanctions_country_risk = "Cleared"]

Seed39015 ==
    [BlankRow EXCEPT !.ref = "BRC-LC-2024-39015", !.status = "Rejected",
        !.lc_amount = Num(900000), !.tolerance_pct = Num(0),
        !.collateral_primary_type = Text(NONE), !.collateral_value = Num(0),
        !.stp_decision = "NO",
        !.stp_reason = SeedReason("Insufficient collateral and AML flag raised"),
        !.haircut_pct = 0, !.eligible_collateral_value = 0,
        !.action_date = Some(0), !.action_by = Some("Riya Mehta"),
        !.officer_notes = Some("Rejected"),
        !.sanctions_applicant = "Cleared", !.sanctions_beneficiary = "Cleared",
        !.aml_status = "Failed"]

DEMO == {Seed71842, Seed64391, Seed50128, Seed43900, Seed39015}

SeededApps == [r \in {d.ref : d \in DEMO} |-> CHOOSE d \in DEMO : d.ref = r]

---------------------------------------------------------------------------
(* Clients and requests *)

Clients == {"c1", "c2"}

\* the clients that file and approve amendments
AmendClients == {"c2"}

\* a reference no application has
MissingRef == "BRC-LC-0000-00000"

\* the reference genRef() draws for an application filed while the server runs
CreatedRef == "BRC-LC-2026-10000"

\* the references requests name
TargetRefs == {"BRC-LC-2024-71842", "BRC-LC-2024-43900", MissingRef, CreatedRef}

\* the references amendment requests and approvals name
AmendRefs == {"BRC-LC-2024-71842", MissingRef}

\* req.body.officer, "" when the request carries none
OfficerInputs == {"", "Riya Mehta"}

MaxClock == 1

MaxDecisionRuns == 2

\* a request of `route` may still be issued
MayIssue(route, max) == issued[route] < max

Issue(route) == issued' = [issued EXCEPT ![route] = @ + 1]

\* res.status(code).json(body): the request is complete, the handler's locals are gone
Respond(c, body) ==
    /\ resp' = [resp EXCEPT ![c] = body]
    /\ pc' = [pc EXCEPT ![c] = "idle"]
    /\ loc' = [loc EXCEPT ![c] = Null]

\* the handler suspends at the next await (a client in a request holds no response)
Await(c, at, locals) ==
    /\ pc' = [pc EXCEPT ![c] = at]
    /\ loc' = [loc EXCEPT ![c] = locals]
    /\ resp' = [resp EXCEPT ![c] = Null]

\* the catch block of every route
Status500 == [status |-> 500, success |-> FALSE]

NotFound == [status |-> 404, success |-> FALSE]

\* new Date(): the clock is read, having stood still or moved on since it was
\* last read
Now(t) ==
    /\ t \in clock..MaxClock
    /\ clock' = t

---------------------------------------------------------------------------
(* POST /api/decision/:ref - steps 8-9: collateral valuation and rule engine *)

\* (row.collateral_primary_type || 'NONE').toUpperCase()
CollType(row) == ToUpperCase(JsOr(row.collateral_primary_type, Text(NONE)).s)

\* the collateral value by type
CollValue(row, collType) ==
    IF collType = FD \/ collType = CASH
    THEN ParseFloatOr0(JsOr(row.fd_amount, JsOr(row.cash_margin_amount, row.collateral_value)))
    ELSE IF collType \in {LIQUID_SECURITY, GOVT_BOND}
    THEN ParseFloatOr0(JsOr(row.sec_market_value, row.collateral_value))
    ELSE ParseFloatOr0(row.collateral_value)

\* generateMT700(app) called at time `now`: the draft's credit number (:20:), date
\* of issue (:31C:) and amount (:32B:, in hundredths); its other tags substitute
\* columns no modelled handler changes.
generateMT700(app, now) ==
    [ref |-> app.ref, issued |-> now, amount |-> 100 * ParseFloatOr0(app.lc_amount)]

\* req.body.officer || 'System (Auto)'
DecisionOfficer(o) == IF o = "" THEN "System (Auto)" ELSE o

\* the columns a decision is computed from
InputsOf(row) ==
    [collateral_primary_type |-> row.collateral_primary_type,
     collateral_value |-> row.collateral_value,
     fd_amount |-> row.fd_amount, cash_margin_amount |-> row.cash_margin_amount,
     sec_market_value |-> row.sec_market_value, lc_amount |-> row.lc_amount]

\* lines 623-637: the call of lcDecision on the columns read
DecisionFor(row) ==
    lcDecision(CollType(row), CollValue(row, CollType(row)), ParseFloatOr0(row.lc_amount))

\* (result.margin || 0) * 100, as a percentage
HaircutPct(result) == IF result.margin = Null THEN 0 ELSE result.margin[1]

\* an UPDATE that leaves the old reason in place
MutDecisionColumns(row, l) ==
    [row EXCEPT !.haircut_pct = HaircutPct(l.result),
                !.eligible_collateral_value = l.result.eligibleValue,
                !.stp_decision = l.result.decision,
                !.stp_run_at = Some(l.now), !.stp_run_by = Some(l.officer),
                !.mt700_draft = l.mt700, !.mt700_generated_at = l.mt700At]

\* the UPDATE of lines 647-658 applied to the stored row
DecisionColumns(row, l) ==
    [row EXCEPT !.haircut_pct = HaircutPct(l.result),
                !.eligible_collateral_value = l.result.eligibleValue,
                !.stp_decision = l.result.decision,
                !.stp_reason = Some(l.result.reason),
                !.stp_run_at = Some(l.now), !.stp_run_by = Some(l.officer),
                !.mt700_draft = l.mt700, !.mt700_generated_at = l.mt700At]

\* a stored draft that only a YES keeps
MutDraftCleared(row, result, now) ==
    IF result.decision = "YES"
    THEN [mt700 |-> Some(generateMT700(row, now)), mt700At |-> Some(now)]
    ELSE [mt700 |-> Null, mt700At |-> Null]

\* a draft generated only for REVIEW
MutDraftFor(row, result, now) ==
    IF result.decision = "REVIEW"
    THEN [mt700 |-> Some(generateMT700(row, now)), mt700At |-> Some(now)]
    ELSE [mt700 |-> row.mt700_draft, mt700At |-> row.mt700_generated_at]

\* lines 639-645: the stored draft is kept unless the decision is YES
DraftFor(row, result, now) ==
    IF result.decision = "YES"
    THEN [mt700 |-> Some(generateMT700(row, now)), mt700At |-> Some(now)]
    ELSE [mt700 |-> row.mt700_draft, mt700At |-> row.mt700_generated_at]

\* lines 617-645: the SELECT and everything computed before the UPDATE is awaited
DecisionRead(c) ==
    /\ pc[c] = "idle"
    /\ MayIssue("decision", MaxDecisionRuns)
    /\ Issue("decision")
    /\ \E r \in TargetRefs, o \in OfficerInputs, now \in 0..MaxClock :
          /\ Now(now)
          /\ IF r \notin DOMAIN apps
             THEN /\ Respond(c, NotFound)
                  /\ UNCHANGED lastRead
             ELSE
               LET row       == apps[r]
                   result    == DecisionFor(row)
                   draft     == DraftFor(row, result, now)
               IN  /\ Await(c, "decision:update",
                         [ref |-> r, officer |-> DecisionOfficer(o), result |-> result,
                          now |-> now, mt700 |-> draft.mt700, mt700At |-> draft.mt700At,
                          draftRead |-> <<row.mt700_draft, row.mt700_generated_at>>,
                          read |-> InputsOf(row)])
                   /\ lastRead' = [lastRead EXCEPT ![r] = Some(InputsOf(row))]
    /\ UNCHANGED <<genVars, decideVars, checkVars, examVars, dbVars, decidedFrom>>

\* lines 647-658: the UPDATE of the decision columns
DecisionUpdate(c) ==
    /\ pc[c] = "decision:update"
    /\ apps' = [apps EXCEPT ![loc[c].ref] = DecisionColumns(@, loc[c])]
    /\ decidedFrom' = [decidedFrom EXCEPT ![loc[c].ref] = Some(loc[c].read)]
    /\ Await(c, "decision:audit", loc[c])
    /\ UNCHANGED <<genVars, decideVars, checkVars, examVars, actions, amendments, notifications, clock, issued, lastRead>>

\* lines 660-668: the INSERT of the RULE_ENGINE audit entry, and the response
DecisionAudit(c) ==
    /\ pc[c] = "decision:audit"
    /\ LET l == loc[c] IN
          /\ actions' = Append(actions,
                [ref |-> l.ref, action |-> <<"STP Decision", l.result.decision>>,
                 action_type |-> "RULE_ENGINE", officer |-> l.officer,
                 metadata |-> l.result, action_at |-> l.now])
          /\ Respond(c, [status |-> 200, success |-> TRUE, route |-> "decision",
                         ref |-> l.ref,
                         decision |-> l.result.decision,
                         eligibleValue |-> l.result.eligibleValue,
                         margin |-> l.result.margin, reason |-> l.result.reason,
                         haircutPct |-> HaircutPct(l.result),
                         mt700Generated |-> (l.result.decision = "YES")])
    /\ UNCHANGED <<genVars, decideVars, checkVars, examVars, apps, amendments, notifications, clock, issued,
                   lastRead, decidedFrom>>

\* line 669: SQLite rejects the UPDATE or the INSERT (database busy, disk full)
DecisionFail(c) ==
    /\ pc[c] \in {"decision:update", "decision:audit"}
    /\ Respond(c, Status500)
    /\ UNCHANGED <<genVars, decideVars, checkVars, examVars, dbVars, clock, issued, lastRead, decidedFrom>>

---------------------------------------------------------------------------
(* GET /api/mt700/:ref - the MT700 draft, generated on demand *)

MaxDraftRequests == 2

\* lines 673-680: the SELECT; a stored draft is returned, a missing one generated
Mt700Read(c) ==
    /\ pc[c] = "idle"
    /\ MayIssue("mt700", MaxDraftRequests)
    /\ Issue("mt700")
    /\ \E r \in TargetRefs, now \in 0..MaxClock :
          /\ Now(now)
          /\ IF r \notin DOMAIN apps
             THEN Respond(c, NotFound)
             ELSE IF apps[r].mt700_draft = Null
             THEN Await(c, "mt700:store",
                        [ref |-> r, now |-> now, draft |-> generateMT700(apps[r], now)])
             ELSE Respond(c, [status |-> 200, success |-> TRUE, route |-> "mt700",
                              ref |-> r, draft |-> apps[r].mt700_draft,
                              generatedAt |-> apps[r].mt700_generated_at,
                              onDemand |-> FALSE])
    /\ UNCHANGED <<genVars, decideVars, checkVars, examVars, dbVars, lastRead, decidedFrom>>

\* lines 681-682: the UPDATE of the draft columns, and the response
Mt700Store(c) ==
    /\ pc[c] = "mt700:store"
    /\ LET l == loc[c] IN
          /\ apps' = [apps EXCEPT ![l.ref].mt700_draft = Some(l.draft),
                                  ![l.ref].mt700_generated_at = Some(l.now)]
          /\ Respond(c, [status |-> 200, success |-> TRUE, route |-> "mt700",
                         ref |-> l.ref, draft |-> Some(l.draft),
                         generatedAt |-> Some(l.now), onDemand |-> TRUE])
    /\ UNCHANGED <<genVars, decideVars, checkVars, examVars, actions, amendments, notifications, clock,
                   issued, lastRead, decidedFrom>>

---------------------------------------------------------------------------
(* POST /api/amendments/:ref - submit an amendment request *)

MaxAmendRequests == 1

MaxApprovals == 1

\* d.fieldChanged: a column fieldMap maps, and a name it lacks
AmendFields == {"LC Amount", "Incoterms"}

\* d.newValue
AmendValues == {<<"1", "5", "0">>, <<"a", "b", "c">>}

\* const feeImpact = 2500
AmendmentFee == 2500

\* rows of table amendments that belong to ref
AmendmentsOf(ref) == {i \in 1..Len(amendments) : amendments[i].ref = ref}

\* SELECT MAX(amendment_number) ... WHERE ref = ?  (0 stands for NULL: n || 0)
MaxAmendmentNumber(ref) ==
    IF AmendmentsOf(ref) = {} THEN 0
    ELSE CHOOSE n \in {amendments[i].amendment_number : i \in AmendmentsOf(ref)} :
            \A i \in AmendmentsOf(ref) : amendments[i].amendment_number <= n

\* lines 1165-1169: a request for reference r, one of at most max
AmendRequest(c, r, max) ==
    /\ pc[c] = "idle"
    /\ MayIssue("amend", max)
    /\ Issue("amend")
    /\ \E f \in AmendFields, v \in AmendValues, now \in 0..MaxClock :
          /\ Now(now)
          /\ IF r \notin DOMAIN apps
             THEN Respond(c, NotFound)
             ELSE Await(c, "amend:max",
                     [ref |-> r, now |-> now, fieldChanged |-> f,
                      oldValue |-> Text(<< >>), newValue |-> Text(v), amendNum |-> 0])
    /\ UNCHANGED <<genVars, decideVars, checkVars, examVars, dbVars, lastRead, decidedFrom>>

\* the amendment requests made while decisions run
AmendRead(c) ==
    /\ c \in AmendClients
    /\ \E r \in AmendRefs : AmendRequest(c, r, MaxAmendRequests)

\* lines 1171-1173
AmendMax(c) ==
    /\ pc[c] = "amend:max"
    /\ Await(c, "amend:insert",
          [loc[c] EXCEPT !.amendNum = MaxAmendmentNumber(loc[c].ref) + 1])
    /\ UNCHANGED <<genVars, decideVars, checkVars, examVars, dbVars, clock, issued, lastRead, decidedFrom>>

\* lines 1178-1180
AmendInsert(c) ==
    /\ pc[c] = "amend:insert"
    /\ LET l == loc[c] IN
          amendments' = Append(amendments,
             [id |-> Len(amendments) + 1, ref |-> l.ref,
              amendment_number |-> l.amendNum, requested_at |-> l.now,
              field_changed |-> l.fieldChanged, old_value |-> l.oldValue,
              new_value |-> l.newValue, status |-> "Pending",
              approved_by |-> Null, approved_at |-> Null, mt707_draft |-> Null,
              fee_impact |-> AmendmentFee])
    /\ Await(c, "amend:notify", loc[c])
    /\ UNCHANGED <<genVars, decideVars, checkVars, examVars, apps, actions, notifications, clock, issued,
                   lastRead, decidedFrom>>

\* lines 1182-1185
AmendNotify(c) ==
    /\ pc[c] = "amend:notify"
    /\ notifications' = Append(notifications,
          [ref |-> loc[c].ref, type |-> "AMENDMENT_REQUEST", sent_at |-> loc[c].now])
    /\ Await(c, "amend:audit", loc[c])
    /\ UNCHANGED <<genVars, decideVars, checkVars, examVars, apps, actions, amendments, clock, issued,
                   lastRead, decidedFrom>>

\* lines 1187-1190
AmendAudit(c) ==
    /\ pc[c] = "amend:audit"
    /\ LET l == loc[c] IN
          /\ actions' = Append(actions,
                [ref |-> l.ref, action |-> <<"Amendment Requested", l.amendNum>>,
                 action_type |-> "AMENDMENT", officer |-> "Client",
                 metadata |-> Null, action_at |-> l.now])
          /\ Respond(c, [status |-> 201, success |-> TRUE, route |-> "amend",
                         ref |-> l.ref, amendmentNumber |-> l.amendNum,
                         feeImpact |-> AmendmentFee])
    /\ UNCHANGED <<genVars, decideVars, checkVars, examVars, apps, amendments, notifications, clock, issued,
                   lastRead, decidedFrom>>

---------------------------------------------------------------------------
(* POST /api/amendments/:ref/approve - approve the pending amendment *)

fieldMap ==
    ("LC Amount" :> "lc_amount") @@ ("Expiry Date" :> "lc_expiry_date")
      @@ ("Latest Shipment Date" :> "latest_ship_date")
      @@ ("Goods Description" :> "goods_desc") @@ ("Port of Loading" :> "port_loading")
      @@ ("Port of Discharge" :> "port_discharge") @@ ("Payment Terms" :> "payment_terms")
      @@ ("Tolerance %" :> "tolerance_pct")
      @@ ("Special Instructions" :> "special_instructions")
      @@ ("Advising Bank" :> "advising_bank") @@ ("Beneficiary Name" :> "beneficiary_name")

\* the columns declared REAL (lines 58, 60); the other mapped columns are TEXT
RealColumns == {"lc_amount", "tolerance_pct"}

\* the value a column stores for a bound text
Affinity(dbField, v) == IF dbField \in RealColumns THEN RealAffinity(v) ELSE v

\* the pending amendments of ref with the lowest number
MutPendingTop(ref) ==
    {i \in AmendmentsOf(ref) :
        /\ amendments[i].status = "Pending"
        /\ \A j \in AmendmentsOf(ref) :
              amendments[j].status = "Pending"
                 => amendments[j].amendment_number >= amendments[i].amendment_number}

\* the pending amendments of ref with the highest number (ORDER BY ... DESC LIMIT 1)
PendingTop(ref) ==
    {i \in AmendmentsOf(ref) :
        /\ amendments[i].status = "Pending"
        /\ \A j \in AmendmentsOf(ref) :
              amendments[j].status = "Pending"
                 => amendments[j].amendment_number <= amendments[i].amendment_number}

\* the MT707 draft: the values substituted into its tags
generateMT707(ref, amendment, now) ==
    [ref |-> ref, number |-> amendment.amendment_number, date |-> now,
     field |-> amendment.field_changed, previous |-> amendment.old_value,
     amended |-> amendment.new_value]

\* req.body.officer || 'Officer'
ApproveOfficer(o) == IF o = "" THEN "Officer" ELSE o

\* lines 1203-1218: a request for reference r, one of at most max
ApproveRequest(c, r, max) ==
    /\ pc[c] = "idle"
    /\ MayIssue("approve", max)
    /\ Issue("approve")
    /\ \E o \in {""}, now \in 0..MaxClock :
          /\ Now(now)
          /\ IF PendingTop(r) = {}
             THEN Respond(c, NotFound)
             ELSE \E i \in PendingTop(r) :
                     Await(c, IF amendments[i].field_changed \in DOMAIN fieldMap
                              THEN "approve:field" ELSE "approve:count",
                           [ref |-> r, now |-> now, officer |-> ApproveOfficer(o),
                            amendment |-> amendments[i]])
    /\ UNCHANGED <<genVars, decideVars, checkVars, examVars, dbVars, lastRead, decidedFrom>>

\* the approvals made while decisions run
ApproveRead(c) ==
    /\ c \in AmendClients
    /\ \E r \in AmendRefs : ApproveRequest(c, r, MaxApprovals)

\* line 1219: UPDATE lc_applications SET <dbField> = new_value
ApproveField(c) ==
    /\ pc[c] = "approve:field"
    /\ LET l == loc[c]
           dbField == fieldMap[l.amendment.field_changed]
       IN  apps' = [apps EXCEPT ![l.ref][dbField] = Affinity(dbField, l.amendment.new_value)]
    /\ Await(c, "approve:count", loc[c])
    /\ UNCHANGED <<genVars, decideVars, checkVars, examVars, actions, amendments, notifications, clock, issued,
                   lastRead, decidedFrom>>

\* line 1221: amendment_count = COALESCE(amendment_count, 0) + 1
ApproveCount(c) ==
    /\ pc[c] = "approve:count"
    /\ apps' = [apps EXCEPT ![loc[c].ref].amendment_count = Num(ParseFloatOr0(@) + 1)]
    /\ Await(c, "approve:status", loc[c])
    /\ UNCHANGED <<genVars, decideVars, checkVars, examVars, actions, amendments, notifications, clock, issued,
                   lastRead, decidedFrom>>

\* lines 1223-1254
ApproveStatus(c) ==
    /\ pc[c] = "approve:status"
    /\ LET l == loc[c] IN
          amendments' = [amendments EXCEPT ![l.amendment.id] =
             [@ EXCEPT !.status = "Approved", !.approved_by = Some(l.officer),
                       !.approved_at = Some(l.now),
                       !.mt707_draft = Some(generateMT707(l.ref, l.amendment, l.now))]]
    /\ Await(c, "approve:audit", loc[c])
    /\ UNCHANGED <<genVars, decideVars, checkVars, examVars, apps, actions, notifications, clock, issued,
                   lastRead, decidedFrom>>

\* lines 1256-1259
ApproveAudit(c) ==
    /\ pc[c] = "approve:audit"
    /\ LET l == loc[c] IN
          /\ actions' = Append(actions,
                [ref |-> l.ref, action |-> <<"Amendment Approved", l.amendment.amendment_number>>,
                 action_type |-> "AMENDMENT_APPROVE", officer |-> l.officer,
                 metadata |-> Null, action_at |-> l.now])
          /\ Respond(c, [status |-> 200, success |-> TRUE, route |-> "approve",
                         ref |-> l.ref,
                         amendmentNumber |-> l.amendment.amendment_number])
    /\ UNCHANGED <<genVars, decideVars, checkVars, examVars, apps, amendments, notifications, clock, issued,
                   lastRead, decidedFrom>>

---------------------------------------------------------------------------
(* Discrepancy review engine *)

CommercialInvoice ==
    <<"C", "o", "m", "m", "e", "r", "c", "i", "a", "l", " ", "I", "n", "v", "o", "i", "c",
    "e">>

BillOfLading == <<"B", "i", "l", "l", " ", "o", "f", " ", "L", "a", "d", "i", "n", "g">>

PackingList == <<"P", "a", "c", "k", "i", "n", "g", " ", "L", "i", "s", "t">>

CertificateOfOrigin ==
    <<"C", "e", "r", "t", "i", "f", "i", "c", "a", "t", "e", " ", "o", "f", " ", "O", "r",
    "i", "g", "i", "n">>

InsuranceCertificate ==
    <<"I", "n", "s", "u", "r", "a", "n", "c", "e", " ", "C", "e", "r", "t", "i", "f", "i",
    "c", "a", "t", "e">>

InspectionCertificate ==
    <<"I", "n", "s", "p", "e", "c", "t", "i", "o", "n", " ", "C", "e", "r", "t", "i", "f",
    "i", "c", "a", "t", "e">>

WeightCertificate ==
    <<"W", "e", "i", "g", "h", "t", "/", "M", "e", "a", "s", "u", "r", "e", "m", "e", "n",
    "t", " ", "C", "e", "r", "t", "i", "f", "i", "c", "a", "t", "e">>

\* the keys of presentedFlags in their order, each with the column it reads
presentedFlags ==
    <<[key |-> CommercialInvoice, column |-> "commercial_invoice"],
      [key |-> BillOfLading, column |-> "bill_of_lading"],
      [key |-> PackingList, column |-> "packing_list"],
      [key |-> CertificateOfOrigin, column |-> "certificate_of_origin"],
      [key |-> InsuranceCertificate, column |-> "insurance_cert"],
      [key |-> InspectionCertificate, column |-> "inspection_cert"],
      [key |-> WeightCertificate, column |-> "weight_cert"]>>

\* addDisc(field, lcVal, docVal, severity, rule, desc): the entry pushed.  A
\* field name is its label and, for a document, the document's name; lc_value
\* and doc_value are the values substituted into their texts; the description
\* is fixed by the rule.
addDisc(label, doc, lcVal, docVal, severity, rule) ==
    [field_name |-> [label |-> label, doc |-> doc], lc_value |-> lcVal,
     doc_value |-> docVal, severity |-> severity, rule_matched |-> rule]

\* 1. Amount check with tolerance (lines 972-984).  The comparisons with
\* maxAmt = lcAmt * (1 + t/100) and with minAmt * 0.5 are made on whole numbers.
\* For the tolerances 5 and 10 and whole amounts the doubles of the code decide
\* every comparison as the exact bounds do (for other tolerances they need not:
\* 100 * (1 + 15/100) is 114.99999999999999).
AmountRule(lcApp, docPresentation) ==
    LET lcAmt      == ParseFloatOr0(lcApp.lc_amount)
        invoiceAmt == ParseFloatOr0(docPresentation.invoice_amount)
        tolerance  == ParseFloatOr(lcApp.tolerance_pct, 5)
        lcVal      == <<lcApp.lc_currency, Num(lcAmt)>>
        docVal     == <<docPresentation.invoice_currency, Num(invoiceAmt)>>
    IN  IF 100 * invoiceAmt > lcAmt * (100 + tolerance)
        THEN <<addDisc("Invoice Amount", << >>, lcVal, docVal, "MAJOR",
                       "AMOUNT_EXCEEDS_TOLERANCE")>>
        ELSE IF 200 * invoiceAmt < lcAmt * (100 - tolerance)
        THEN <<addDisc("Invoice Amount", << >>, lcVal, docVal, "MINOR",
                       "AMOUNT_SIGNIFICANTLY_BELOW")>>
        ELSE << >>

\* (v || '') as a string
TextOr(v) == JsOr(v, Text(<< >>)).s

\* 2. Currency mismatch (lines 986-991)
CurrencyRule(lcApp, docPresentation) ==
    LET lcCur  == ToUpperCase(TextOr(lcApp.lc_currency))
        docCur == ToUpperCase(TextOr(docPresentation.invoice_currency))
    IN  IF docCur # << >> /\ lcCur # << >> /\ docCur # lcCur
        THEN <<addDisc("Currency", << >>, <<Text(lcCur)>>, <<Text(docCur)>>, "FATAL",
                       "CURRENCY_MISMATCH")>>
        ELSE << >>

\* a > b on two Dates: false when either is an Invalid Date
DateAfter(a, b) == a # Null /\ b # Null /\ a[1] > b[1]

\* 3. Late shipment (lines 993-1001)
ShipmentRule(lcApp, docPresentation) ==
    IF /\ Truthy(lcApp.latest_ship_date)
       /\ Truthy(docPresentation.shipment_date)
       /\ DateAfter(DateOf(docPresentation.shipment_date), DateOf(lcApp.latest_ship_date))
    THEN <<addDisc("Shipment Date", << >>, <<lcApp.latest_ship_date>>,
                   <<docPresentation.shipment_date>>, "MAJOR", "LATE_SHIPMENT")>>
    ELSE << >>

\* the test of rules 4 and 5 on the two port names
PortsDiffer(lcColumn, docColumn) ==
    LET lcPort  == Trim(ToLowerCase(TextOr(lcColumn)))
        docPort == Trim(ToLowerCase(TextOr(docColumn)))
    IN  /\ lcPort # << >>
        /\ docPort # << >>
        /\ ~Includes(docPort, lcPort)
        /\ ~Includes(lcPort, docPort)

\* 4. Port of Loading mismatch (lines 1003-1009)
LoadingRule(lcApp, docPresentation) ==
    IF PortsDiffer(lcApp.port_loading, docPresentation.shipment_port)
    THEN <<addDisc("Port of Loading", << >>, <<lcApp.port_loading>>,
                   <<docPresentation.shipment_port>>, "MAJOR", "PORT_MISMATCH")>>
    ELSE << >>

\* 5. Port of Discharge mismatch (lines 1011-1017)
DischargeRule(lcApp, docPresentation) ==
    IF PortsDiffer(lcApp.port_discharge, docPresentation.discharge_port)
    THEN <<addDisc("Port of Discharge", << >>, <<lcApp.port_discharge>>,
                   <<docPresentation.discharge_port>>, "MAJOR", "DISCHARGE_PORT_MISMATCH")>>
    ELSE << >>

\* the positions in presentedFlags of the keys a required document matches
MatchingKeys(doc) ==
    {i \in 1..Len(presentedFlags) :
        Includes(ToLowerCase(doc), Trim(SplitFirst(ToLowerCase(presentedFlags[i].key), "/")))}

\* !flag || flag === 'No' || flag === ''
NotPresented(flag) == ~Truthy(flag) \/ flag = Text(<<"N", "o">>)

\* the document matches a key (find takes the first) whose flag says not presented
MissingDocument(doc, docPresentation) ==
    /\ MatchingKeys(doc) # {}
    /\ LET i == CHOOSE k \in MatchingKeys(doc) : \A j \in MatchingKeys(doc) : k <= j
       IN  NotPresented(docPresentation[presentedFlags[i].column])

\* 6. Missing required documents (lines 1019-1036), over the documents from
\* position i on
RECURSIVE DocumentRule(_, _, _)
DocumentRule(requiredDocs, docPresentation, i) ==
    IF i > Len(requiredDocs) THEN << >>
    ELSE (IF MissingDocument(requiredDocs[i], docPresentation)
          THEN <<addDisc("Document", requiredDocs[i], <<Text(<<"Required">>)>>,
                         <<Text(<<"Not Presented">>)>>, "MAJOR", "MISSING_DOCUMENT")>>
          ELSE << >>)
         \o DocumentRule(requiredDocs, docPresentation, i + 1)

\* 7. Late presentation (lines 1038-1047); submitted_at is a day of the clock
PresentationRule(docPresentation) ==
    LET shipDate == DateOf(docPresentation.shipment_date)
    IN  IF /\ Truthy(docPresentation.shipment_date)
           /\ shipDate # Null
           /\ docPresentation.submitted_at - shipDate[1] > 21
        THEN <<addDisc("Presentation Period", << >>, <<Text(<<"21 days max">>)>>,
                       <<Num(docPresentation.submitted_at - shipDate[1])>>, "FATAL",
                       "LATE_PRESENTATION")>>
        ELSE << >>

\* the number of discrepancies of one severity
CountOf(discs, severity) == Cardinality({i \in 1..Len(discs) : discs[i].severity = severity})

\* a MAJOR without a FATAL no longer discrepant
MutOverall(fatalCount, majorCount, minorCount) ==
    IF fatalCount > 0 THEN "DISCREPANT"
    ELSE IF minorCount > 0 \/ majorCount > 0 THEN "MINOR_DISCREPANCIES"
    ELSE "COMPLIANT"

\* line 1053
Overall(fatalCount, majorCount, minorCount) ==
    IF fatalCount > 0 THEN "DISCREPANT"
    ELSE IF majorCount > 0 THEN "DISCREPANT"
    ELSE IF minorCount > 0 THEN "MINOR_DISCREPANCIES"
    ELSE "COMPLIANT"

\* lines 1049-1055
Summary(discs) ==
    [overall |-> Overall(CountOf(discs, "FATAL"), CountOf(discs, "MAJOR"),
                         CountOf(discs, "MINOR")),
     fatal |-> CountOf(discs, "FATAL"), major |-> CountOf(discs, "MAJOR"),
     minor |-> CountOf(discs, "MINOR"), total |-> Len(discs)]

runDiscrepancyCheck(lcApp, docPresentation) ==
    LET discs ==
            AmountRule(lcApp, docPresentation) \o CurrencyRule(lcApp, docPresentation)
              \o ShipmentRule(lcApp, docPresentation) \o LoadingRule(lcApp, docPresentation)
              \o DischargeRule(lcApp, docPresentation)
              \o DocumentRule(safeJSON(lcApp.documents, << >>), docPresentation, 1)
              \o PresentationRule(docPresentation)
    IN  [discrepancies |-> discs, summary |-> Summary(discs)]

---------------------------------------------------------------------------
(* Specification Spec: the decision run among amendment requests and approvals *)

Routes ==
    {"decision", "amend", "approve", "documents", "examine", "mt700", "status",
     "compliance", "close", "create"}

\* the variables of the other specifications, at rest
DecideIdle ==
    /\ dargs = [type |-> NONE, value |-> 0, lcAmount |-> 0]
    /\ dret = Null
    /\ dprev = Null

CheckIdle ==
    /\ cargs = Null
    /\ cret = Null

ExamIdle ==
    /\ presentations = << >>
    /\ discrepancies = << >>
    /\ examined = [r \in TargetRefs |-> Null]

GenIdle ==
    /\ gargs = Null
    /\ gret = Null

\* the database after POST /api/seed, every client idle
Init ==
    /\ DecideIdle
    /\ CheckIdle
    /\ ExamIdle
    /\ GenIdle
    /\ apps = SeededApps
    /\ actions = << >>
    /\ amendments = << >>
    /\ notifications = << >>
    /\ clock = 0
    /\ pc = [c \in Clients |-> "idle"]
    /\ loc = [c \in Clients |-> Null]
    /\ resp = [c \in Clients |-> Null]
    /\ issued = [r \in Routes |-> 0]
    /\ lastRead = [r \in TargetRefs |-> Null]
    /\ decidedFrom = [r \in TargetRefs |-> Null]

Next ==
    \/ \E c \in Clients :
          \/ DecisionRead(c) \/ DecisionUpdate(c) \/ DecisionAudit(c) \/ DecisionFail(c)
          \/ AmendRead(c) \/ AmendMax(c) \/ AmendInsert(c) \/ AmendNotify(c)
          \/ AmendAudit(c)
          \/ ApproveRead(c) \/ ApproveField(c) \/ ApproveCount(c) \/ ApproveStatus(c)
          \/ ApproveAudit(c)

Spec == Init /\ [][Next]_vars

\* the server's variables while lcDecision alone is exercised
ServerIdle ==
    /\ apps = SeededApps
    /\ actions = << >>
    /\ amendments = << >>
    /\ notifications = << >>
    /\ clock = 0
    /\ pc = [c \in Clients |-> "idle"]
    /\ loc = [c \in Clients |-> Null]
    /\ resp = [c \in Clients |-> Null]
    /\ issued = [r \in Routes |-> 0]
    /\ lastRead = [r \in TargetRefs |-> Null]
    /\ decidedFrom = [r \in TargetRefs |-> Null]

---------------------------------------------------------------------------
(* Specification SpecDecide: lcDecision as a pure function *)

DecideInit ==
    /\ dargs \in [type : DecideTypes, value : Values, lcAmount : Amounts]
    /\ dret = Null
    /\ dprev = Null
    /\ CheckIdle
    /\ ServerIdle
    /\ ExamIdle
    /\ GenIdle

\* the call lcDecision(type, value, lcAmount)
Decide ==
    /\ dret = Null
    /\ dret' = Some(lcDecision(dargs.type, dargs.value, dargs.lcAmount))
    /\ UNCHANGED <<genVars, dargs, dprev, checkVars, srvVars, examVars>>

\* a second call with the same type and amount and a collateral value not lower
DecideRaised ==
    /\ dret # Null
    /\ dprev = Null
    /\ \E v \in Values :
          /\ v >= dargs.value
          /\ dargs' = [dargs EXCEPT !.value = v]
          /\ dret' = Some(lcDecision(dargs.type, v, dargs.lcAmount))
    /\ dprev' = Some([args |-> dargs, ret |-> dret[1]])
    /\ UNCHANGED <<genVars, checkVars, srvVars, examVars>>

DecideNext == Decide \/ DecideRaised

SpecDecide == DecideInit /\ [][DecideNext]_vars

---------------------------------------------------------------------------
(* POST /api/documents/:ref - submit presented documents *)

\* lines 934-942: the row inserted for request body d at time now (d.x || '' for
\* the texts, parseFloat(d.invoiceAmount) || 0 for the amount)
PresentationRow(ref, id, now, d) ==
    [id |-> id, ref |-> ref, submitted_at |-> now,
     commercial_invoice |-> JsOr(d.commercialInvoice, Text(<< >>)),
     bill_of_lading |-> JsOr(d.billOfLading, Text(<< >>)),
     packing_list |-> JsOr(d.packingList, Text(<< >>)),
     certificate_of_origin |-> JsOr(d.certificateOfOrigin, Text(<< >>)),
     insurance_cert |-> JsOr(d.insuranceCert, Text(<< >>)),
     inspection_cert |-> JsOr(d.inspectionCert, Text(<< >>)),
     weight_cert |-> JsOr(d.weightCert, Text(<< >>)),
     invoice_amount |-> Num(ParseFloatOr0(d.invoiceAmount)),
     invoice_currency |-> JsOr(d.invoiceCurrency, Text(<< >>)),
     shipment_date |-> JsOr(d.shipmentDate, Text(<< >>)),
     shipment_port |-> JsOr(d.shipmentPort, Text(<< >>)),
     discharge_port |-> JsOr(d.dischargePort, Text(<< >>)),
     status |-> "Submitted", examiner |-> Null, examined_at |-> Null,
     examination_notes |-> Null]

---------------------------------------------------------------------------
(* Inputs of the examination *)

Yes == Text(<<"Y", "e", "s">>)

No == Text(<<"N", "o">>)

\* a request body of POST /api/documents that carries nothing
BlankBody ==
    [commercialInvoice |-> NullV, billOfLading |-> NullV, packingList |-> NullV,
     certificateOfOrigin |-> NullV, insuranceCert |-> NullV, inspectionCert |-> NullV,
     weightCert |-> NullV, invoiceAmount |-> NullV, invoiceCurrency |-> NullV,
     shipmentDate |-> NullV, shipmentPort |-> NullV, dischargePort |-> NullV]

\* a shipment that meets the terms of TermsA
ShipmentClean ==
    [BlankBody EXCEPT
        !.commercialInvoice = Yes, !.billOfLading = Yes, !.packingList = Yes,
        !.certificateOfOrigin = Yes, !.insuranceCert = Yes, !.inspectionCert = Yes,
        !.weightCert = Yes,
        !.invoiceCurrency = Text(<<"u", "s", "d">>), !.shipmentDate = DateText(5),
        !.shipmentPort = Text(<<"G", "o", "a", " ", "P", "o", "r", "t">>), !.dischargePort = Text(<<" ", "k", "o", "c", "h", "i">>)]

\* another currency, a later shipment, other ports, documents not presented
ShipmentOff ==
    [BlankBody EXCEPT
        !.commercialInvoice = No, !.billOfLading = Yes, !.weightCert = Text(<< >>),
        !.invoiceCurrency = Text(<<"E", "U", "R">>), !.shipmentDate = DateText(12),
        !.shipmentPort = Text(<<"K", "o", "c", "h", "i">>), !.dischargePort = Text(<<"G", "o", "a">>)]

\* shipped 21 days before the server started
ShipmentOld ==
    [ShipmentClean EXCEPT !.shipmentDate = DateText(-21)]

\* a shipment date that is no date
ShipmentUndated ==
    [ShipmentClean EXCEPT !.shipmentDate = Text(<<"s", "o", "o", "n">>)]

Shipments == {ShipmentClean, ShipmentOff, ShipmentOld, ShipmentUndated, BlankBody}

\* d.invoiceAmount: around the bounds of the LC amounts below, and the amounts of
\* the stated example
InvoiceAmounts ==
    {-1, 0, 44, 45, 47, 48, 49, 50, 100, 103, 105, 106, 110, 111,
     104999, 105001, 106000, 920000}

\* the request bodies of POST /api/documents
DocBodies == {[sh EXCEPT !.invoiceAmount = Num(a)] : sh \in Shipments, a \in InvoiceAmounts}

\* the terms of an LC the examination reads
TermsA ==
    [lc_currency |-> Text(<<"U", "S", "D">>), latest_ship_date |-> DateText(10),
     port_loading |-> Text(<<"G", "o", "a">>), port_discharge |-> Text(<<"K", "o", "c", "h", "i", " ", "P", "o", "r", "t">>),
     documents |-> JsonArray(<<CommercialInvoice, PackingList>>)]

TermsB ==
    [lc_currency |-> Text(<<"e", "u", "r">>), latest_ship_date |-> Text(<< >>),
     port_loading |-> Text(<<" ", "G", "O", "A", " ">>), port_discharge |-> Text(<< >>),
     documents |-> JsonArray(<<WeightCertificate, <<"A", "i", "r", "w", "a", "y", " ", "B", "i", "l", "l">>>>)]

TermsBlank ==
    [lc_currency |-> Text(<< >>), latest_ship_date |-> Text(<< >>),
     port_loading |-> Text(<< >>), port_discharge |-> Text(<< >>),
     documents |-> JsonArray(<< >>)]

ExamTerms == {TermsA, TermsB, TermsBlank}

\* lc_amount
ExamAmounts == {0, 100, 100000, 900000}

\* tolerance_pct: the default 5 of a new application, 10, and the 0 of the demo
\* row BRC-LC-2024-39015
ExamTolerances == {0, 5, 10}

\* the application the examination is about
ExamRef == "BRC-LC-2024-71842"

\* a stored application with the given amount, tolerance and terms
ExamApp(amount, tolerance, terms) ==
    [BlankRow EXCEPT
        !.ref = ExamRef, !.lc_amount = Num(amount), !.tolerance_pct = Num(tolerance),
        !.lc_currency = terms.lc_currency, !.latest_ship_date = terms.latest_ship_date,
        !.port_loading = terms.port_loading, !.port_discharge = terms.port_discharge,
        !.documents = terms.documents,
        !.collateral_primary_type = Text(NONE), !.collateral_value = Num(0),
        !.fd_amount = Num(0), !.sec_market_value = Num(0), !.cash_margin_amount = Num(0)]

ExamApps == {ExamApp(a, t, terms) : a \in ExamAmounts, t \in ExamTolerances, terms \in ExamTerms}

---------------------------------------------------------------------------
(* POST /api/documents/:ref and POST /api/examine/:ref - the routes *)

MaxSubmissions == 2

MaxExamRuns == 2

\* the references submissions and examinations name
ExamRefs == {ExamRef, MissingRef}

\* the request bodies submitted to the route
SeqShipments == {ShipmentClean, ShipmentOff, ShipmentOld}

SeqInvoiceAmounts == {48, 106}

SeqBodies ==
    {[sh EXCEPT !.invoiceAmount = Num(a)] : sh \in SeqShipments, a \in SeqInvoiceAmounts}

\* d.submittedBy || 'Beneficiary', the request carrying none
Submitter == "Beneficiary"

\* lines 921-924
DocRead(c) ==
    /\ pc[c] = "idle"
    /\ MayIssue("documents", MaxSubmissions)
    /\ Issue("documents")
    /\ \E r \in ExamRefs, d \in SeqBodies, now \in 0..MaxClock :
          /\ Now(now)
          /\ IF r \notin DOMAIN apps
             THEN Respond(c, NotFound)
             ELSE Await(c, "doc:insert", [ref |-> r, now |-> now, d |-> d])
    /\ UNCHANGED <<genVars, decideVars, checkVars, examVars, dbVars, lastRead, decidedFrom>>

\* lines 926-942
DocInsert(c) ==
    /\ pc[c] = "doc:insert"
    /\ presentations' = Append(presentations,
          PresentationRow(loc[c].ref, Len(presentations) + 1, loc[c].now, loc[c].d))
    /\ Await(c, "doc:status", loc[c])
    /\ UNCHANGED <<genVars, decideVars, checkVars, discrepancies, examined, dbVars, clock, issued,
                   lastRead, decidedFrom>>

\* line 944
DocStatus(c) ==
    /\ pc[c] = "doc:status"
    /\ apps' = [apps EXCEPT ![loc[c].ref].doc_presentation_status = Some("Submitted")]
    /\ Await(c, "doc:audit", loc[c])
    /\ UNCHANGED <<genVars, decideVars, checkVars, examVars, actions, amendments, notifications,
                   clock, issued, lastRead, decidedFrom>>

\* lines 945-946
DocAudit(c) ==
    /\ pc[c] = "doc:audit"
    /\ actions' = Append(actions,
          [ref |-> loc[c].ref, action |-> <<"Documents Submitted">>,
           action_type |-> "DOCUMENT_SUBMISSION", officer |-> Submitter,
           metadata |-> Null, action_at |-> loc[c].now])
    /\ Await(c, "doc:notify", loc[c])
    /\ UNCHANGED <<genVars, decideVars, checkVars, examVars, apps, amendments, notifications,
                   clock, issued, lastRead, decidedFrom>>

\* lines 949-953
DocNotify(c) ==
    /\ pc[c] = "doc:notify"
    /\ notifications' = Append(notifications,
          [ref |-> loc[c].ref, type |-> "DOC_SUBMITTED", sent_at |-> loc[c].now])
    /\ Respond(c, [status |-> 201, success |-> TRUE, route |-> "documents",
                   ref |-> loc[c].ref])
    /\ UNCHANGED <<genVars, decideVars, checkVars, examVars, apps, actions, amendments,
                   clock, issued, lastRead, decidedFrom>>

\* the presentations of ref, by id
PresentationsOf(ref) == {i \in 1..Len(presentations) : presentations[i].ref = ref}

\* ORDER BY submitted_at DESC LIMIT 1: the presentations of ref none is later than
LatestPresentations(ref) ==
    {i \in PresentationsOf(ref) :
        \A j \in PresentationsOf(ref) :
            presentations[j].submitted_at <= presentations[i].submitted_at}

\* req.body.officer || 'Examiner', the request carrying none
Examiner == "Examiner"

\* line 1083
ExamStatusOf(result) == IF result.summary.overall = "COMPLIANT" THEN "Compliant" ELSE "Discrepant"

\* lines 1077-1079: the row inserted for discrepancy d
DiscrepancyRow(ref, presentationId, d) ==
    [ref |-> ref, presentation_id |-> presentationId, field_name |-> d.field_name,
     lc_value |-> d.lc_value, doc_value |-> d.doc_value, severity |-> d.severity,
     rule_matched |-> d.rule_matched, status |-> "Open"]

\* a DELETE that removes nothing
MutDeleteDiscrepancies(rows, ref) == rows

\* line 1073: DELETE FROM discrepancies WHERE ref = ?
DeleteDiscrepancies(rows, ref) ==
    LET Kept(row) == row.ref # ref IN SelectSeq(rows, Kept)

\* lines 1060-1064
ExamRead(c) ==
    /\ pc[c] = "idle"
    /\ MayIssue("examine", MaxExamRuns)
    /\ Issue("examine")
    /\ \E r \in ExamRefs, now \in 0..MaxClock :
          /\ Now(now)
          /\ IF r \notin DOMAIN apps
             THEN Respond(c, NotFound)
             ELSE Await(c, "exam:presentation",
                     [ref |-> r, now |-> now, officer |-> Examiner, lcRow |-> apps[r],
                      presentationId |-> 0, result |-> Null, next |-> 0])
    /\ UNCHANGED <<genVars, decideVars, checkVars, examVars, dbVars, lastRead, decidedFrom>>

\* lines 1066-1070
ExamPresentation(c) ==
    /\ pc[c] = "exam:presentation"
    /\ IF LatestPresentations(loc[c].ref) = {}
       THEN Respond(c, NotFound)
       ELSE \E id \in LatestPresentations(loc[c].ref) :
               Await(c, "exam:delete",
                  [loc[c] EXCEPT !.presentationId = id,
                      !.result = Some(runDiscrepancyCheck(loc[c].lcRow, presentations[id]))])
    /\ UNCHANGED <<genVars, decideVars, checkVars, examVars, dbVars, clock, issued,
                   lastRead, decidedFrom>>

\* line 1073
ExamDelete(c) ==
    /\ pc[c] = "exam:delete"
    /\ discrepancies' = DeleteDiscrepancies(discrepancies, loc[c].ref)
    /\ Await(c, IF loc[c].result[1].discrepancies = << >> THEN "exam:status"
                ELSE "exam:insert",
             [loc[c] EXCEPT !.next = 1])
    /\ UNCHANGED <<genVars, decideVars, checkVars, presentations, examined, dbVars, clock, issued,
                   lastRead, decidedFrom>>

\* lines 1076-1080: one turn of the loop
ExamInsert(c) ==
    /\ pc[c] = "exam:insert"
    /\ LET l == loc[c] IN
          /\ discrepancies' = Append(discrepancies,
                DiscrepancyRow(l.ref, l.presentationId, l.result[1].discrepancies[l.next]))
          /\ Await(c, IF l.next = Len(l.result[1].discrepancies) THEN "exam:status"
                      ELSE "exam:insert",
                   [l EXCEPT !.next = @ + 1])
    /\ UNCHANGED <<genVars, decideVars, checkVars, presentations, examined, dbVars, clock, issued,
                   lastRead, decidedFrom>>

\* lines 1083-1085
ExamStatus(c) ==
    /\ pc[c] = "exam:status"
    /\ LET l == loc[c] IN
          presentations' = [presentations EXCEPT ![l.presentationId] =
             [@ EXCEPT !.status = ExamStatusOf(l.result[1]), !.examiner = Some(l.officer),
                       !.examined_at = Some(l.now),
                       !.examination_notes = Some(l.result[1].summary)]]
    /\ Await(c, "exam:appstatus", loc[c])
    /\ UNCHANGED <<genVars, decideVars, checkVars, discrepancies, examined, dbVars, clock, issued,
                   lastRead, decidedFrom>>

\* line 1088
ExamAppStatus(c) ==
    /\ pc[c] = "exam:appstatus"
    /\ apps' = [apps EXCEPT ![loc[c].ref].doc_presentation_status =
                                 Some(ExamStatusOf(loc[c].result[1]))]
    /\ Await(c, "exam:audit", loc[c])
    /\ UNCHANGED <<genVars, decideVars, checkVars, examVars, actions, amendments, notifications,
                   clock, issued, lastRead, decidedFrom>>

\* the rows of table discrepancies that belong to ref, in insertion order
DiscrepanciesOf(rows, ref) ==
    LET Owned(row) == row.ref = ref IN SelectSeq(rows, Owned)

\* lines 1091-1095
ExamAudit(c) ==
    /\ pc[c] = "exam:audit"
    /\ LET l == loc[c] IN
          /\ actions' = Append(actions,
                [ref |-> l.ref,
                 action |-> <<"Document Examination", ExamStatusOf(l.result[1])>>,
                 action_type |-> "DOCUMENT_EXAM", officer |-> l.officer,
                 metadata |-> l.result[1].summary, action_at |-> l.now])
          /\ Respond(c, [status |-> 200, success |-> TRUE, route |-> "examine",
                         ref |-> l.ref, result |-> ExamStatusOf(l.result[1]),
                         discrepancies |-> l.result[1].discrepancies,
                         summary |-> l.result[1].summary])
          /\ examined' = [examined EXCEPT ![l.ref] =
                Some([presentationId |-> l.presentationId,
                      rows |-> Len(DiscrepanciesOf(discrepancies, l.ref))])]
    /\ UNCHANGED <<genVars, decideVars, checkVars, presentations, discrepancies, apps, amendments,
                   notifications, clock, issued, lastRead, decidedFrom>>

---------------------------------------------------------------------------
(* Specification SpecCheck: runDiscrepancyCheck as a pure function *)

CheckInit ==
    /\ cargs \in {[lcApp |-> a, docPresentation |-> PresentationRow(ExamRef, 1, t, d)] :
                     a \in ExamApps, d \in DocBodies, t \in 0..MaxClock}
    /\ cret = Null
    /\ DecideIdle
    /\ ServerIdle
    /\ ExamIdle
    /\ GenIdle

\* the call runDiscrepancyCheck(lcApp, docPresentation)
Check ==
    /\ cret = Null
    /\ cret' = Some(runDiscrepancyCheck(cargs.lcApp, cargs.docPresentation))
    /\ UNCHANGED <<genVars, cargs, decideVars, srvVars, examVars>>

CheckNext == Check

SpecCheck == CheckInit /\ [][CheckNext]_vars

---------------------------------------------------------------------------
(* Specification SpecExamSeq: submissions and examinations, one request after *)
(* another *)

\* the client whose requests follow one another
SeqClients == {"c1"}

\* the applications examined
SeqAmounts == {100}

SeqTolerances == {0, 5}

SeqApps ==
    {ExamApp(a, t, terms) : a \in SeqAmounts, t \in SeqTolerances, terms \in ExamTerms}

ExamSeqInit ==
    /\ DecideIdle
    /\ CheckIdle
    /\ ExamIdle
    /\ GenIdle
    /\ apps \in {[r \in {ExamRef} |-> a] : a \in SeqApps}
    /\ actions = << >>
    /\ amendments = << >>
    /\ notifications = << >>
    /\ clock = 0
    /\ pc = [c \in Clients |-> "idle"]
    /\ loc = [c \in Clients |-> Null]
    /\ resp = [c \in Clients |-> Null]
    /\ issued = [r \in Routes |-> 0]
    /\ lastRead = [r \in TargetRefs |-> Null]
    /\ decidedFrom = [r \in TargetRefs |-> Null]

ExamSeqNext ==
    \E c \in SeqClients :
        \/ DocRead(c) \/ DocInsert(c) \/ DocStatus(c) \/ DocAudit(c) \/ DocNotify(c)
        \/ ExamRead(c) \/ ExamPresentation(c) \/ ExamDelete(c) \/ ExamInsert(c)
        \/ ExamStatus(c) \/ ExamAppStatus(c) \/ ExamAudit(c)

SpecExamSeq == ExamSeqInit /\ [][ExamSeqNext]_vars

\* The haircut table as the specification states it (percent of value forfeited).
StatedHaircut ==
    (FD :> 0) @@ (CASH :> 0) @@ (GOVT_BOND :> 10) @@ (LIQUID_SECURITY :> 15)
      @@ (RECEIVABLES :> 25) @@ (PROPERTY :> 40) @@ (MACHINERY :> 50)

\* the order NO < REVIEW < YES
Rank(decision) ==
    CASE decision = "NO" -> 0 [] decision = "REVIEW" -> 1 [] decision = "YES" -> 2

\* C1: for every type of the stated haircut table, value >= 0 and lcAmount >= 0,
\* lcDecision returns eligibleValue = value * (1 - haircut), and decides YES iff
\* eligible >= lcAmount, REVIEW iff 0.75 * lcAmount <= eligible < lcAmount, NO
\* otherwise; FD, 200, 1,250,000 gives eligible 200 and NO.
C1_DecisionContract ==
    (dret # Null /\ dargs.type \in DOMAIN StatedHaircut) =>
        LET r      == dret[1]
            e100   == dargs.value * (100 - StatedHaircut[dargs.type])
            amt    == dargs.lcAmount
        IN  /\ r.eligibleValue = e100
            /\ r.margin = Some(StatedHaircut[dargs.type])
            /\ (r.decision = "YES") <=> (e100 >= 100 * amt)
            /\ (r.decision = "REVIEW") <=> (75 * amt <= e100 /\ e100 < 100 * amt)
            /\ (r.decision = "NO") <=> (e100 < 75 * amt)
            /\ (dargs.type = FD /\ dargs.value = 200 /\ amt = 1250000)
                  => (e100 = 20000 /\ r.decision = "NO")

\* C1 witness: the call lcDecision(FD, 200, 1250000) has returned NO
C1_Witness ==
    /\ dret # Null
    /\ dargs = [type |-> FD, value |-> 200, lcAmount |-> 1250000]
    /\ dret[1].decision = "NO"

\* C2: for a known type and a fixed lcAmount, a call with a collateral value not
\* lower than the previous call's never decides lower in the order NO < REVIEW < YES.
C2_Monotonic ==
    (dprev # Null /\ dargs.type \in DOMAIN StatedHaircut) =>
        /\ dprev[1].args.type = dargs.type
        /\ dprev[1].args.lcAmount = dargs.lcAmount
        /\ dprev[1].args.value <= dargs.value
        /\ Rank(dprev[1].ret.decision) <= Rank(dret[1].decision)

\* C2 witness: with the amount fixed, a second call with a higher PROPERTY value
\* decided YES where the first had decided REVIEW
C2_Witness ==
    /\ dprev # Null
    /\ dargs.type = PROPERTY
    /\ dprev[1].args.value < dargs.value
    /\ dprev[1].ret.decision = "REVIEW"
    /\ dret[1].decision = "YES"

---------------------------------------------------------------------------
(* The decision run, POST /api/decision/:ref *)

\* client c performs the UPDATE of its decision run in this step
UpdateStep(c) == pc[c] = "decision:update" /\ pc'[c] = "decision:audit"

\* client c's decision run writes its audit entry and responds in this step
CompleteStep(c) == pc[c] = "decision:audit" /\ pc'[c] = "idle" /\ resp'[c].status = 200

\* the type the run of locals l read is not in the stated haircut table
UnknownRun(l) == CollType(l.read) \notin DOMAIN StatedHaircut

\* a successful response of the decision route
DecisionResponse(r) == r # Null /\ r.status = 200 /\ r.route = "decision"

\* lcDecision on any type outside the stated table
C3_Function ==
    \A t \in DecideTypes \ DOMAIN StatedHaircut, v \in Values, a \in Amounts :
        LET r == lcDecision(t, v, a) IN
            /\ r.decision = "REVIEW"
            /\ r.margin = Null
            /\ r.eligibleValue = 0
            /\ r.reason.kind = "Unknown collateral type"
            /\ r.reason.type = Some(t)

\* a decision run on an application whose type is outside the table
C3_Route ==
    \A c \in Clients :
        /\ (UpdateStep(c) /\ UnknownRun(loc[c])) =>
              LET new == apps'[loc[c].ref] IN
                  /\ new.stp_decision = "REVIEW"
                  /\ new.haircut_pct = 0
                  /\ new.eligible_collateral_value = 0
                  /\ new.stp_reason # Null
                  /\ new.stp_reason[1].type = Some(CollType(loc[c].read))
        /\ (CompleteStep(c) /\ UnknownRun(loc[c])) =>
              /\ resp'[c].success
              /\ resp'[c].decision = "REVIEW"
              /\ resp'[c].margin = Null
              /\ resp'[c].eligibleValue = 0

\* C3: a collateral type outside the haircut table is not an error: lcDecision
\* returns REVIEW with a null margin, eligibleValue 0 and a reason that names the
\* type, whatever the value and the amount; a decision run on an application whose
\* type is the default 'NONE' stores stp_decision REVIEW, haircut_pct 0 and
\* eligible_collateral_value 0, and responds with success.
C3_UnknownTypeReview == [][C3_Function /\ C3_Route]_vars

\* C3 witness: a decision run on the application without collateral (type 'NONE')
\* has answered 200 with REVIEW, and the row holds REVIEW, haircut 0, eligible 0
C3_Witness ==
    \E c \in Clients :
        /\ DecisionResponse(resp[c])
        /\ resp[c].ref = "BRC-LC-2024-43900"
        /\ resp[c].decision = "REVIEW"
        /\ resp[c].margin = Null
        /\ apps["BRC-LC-2024-43900"].stp_decision = "REVIEW"
        /\ apps["BRC-LC-2024-43900"].haircut_pct = 0
        /\ apps["BRC-LC-2024-43900"].eligible_collateral_value = 0
        /\ apps["BRC-LC-2024-43900"].stp_run_at # Null

\* the four columns a repeated run must leave as they are
Outcome(row) ==
    <<row.stp_decision, row.stp_reason, row.haircut_pct, row.eligible_collateral_value>>

C4_Step ==
    \A c \in Clients :
        /\ UpdateStep(c) =>
              LET l   == loc[c]
                  old == apps[l.ref]
                  new == apps'[l.ref]
              IN  /\ new.haircut_pct = HaircutPct(l.result)
                  /\ new.eligible_collateral_value = l.result.eligibleValue
                  /\ new.stp_decision = l.result.decision
                  /\ new.stp_reason = Some(l.result.reason)
                  /\ new.stp_run_at = Some(l.now)
                  /\ new.stp_run_by = Some(l.officer)
                  /\ (decidedFrom[l.ref] = Some(l.read) /\ InputsOf(old) = l.read)
                        => Outcome(new) = Outcome(old)
        /\ (pc[c] = "decision:audit" /\ pc'[c] = "idle") => apps' = apps

\* C4: a decision run is idempotent: a run that follows another run on the same
\* application, with no change to the collateral or the LC amount in between,
\* leaves stp_decision, stp_reason, haircut_pct and eligible_collateral_value as
\* they were; and every run overwrites haircut_pct, eligible_collateral_value,
\* stp_decision, stp_reason, stp_run_at and stp_run_by together, in its one UPDATE.
C4_Idempotent == [][C4_Step]_vars

\* C4 witness: with no amendment filed, a run has written its UPDATE after an
\* earlier run on the same application, made at an earlier time, had completed
C4_Witness ==
    /\ amendments = << >>
    /\ \E c \in Clients :
          /\ pc[c] = "decision:audit"
          /\ decidedFrom[loc[c].ref] = Some(loc[c].read)
          /\ apps[loc[c].ref].stp_run_at = Some(loc[c].now)
          /\ \E i \in 1..Len(actions) :
                /\ actions[i].ref = loc[c].ref
                /\ actions[i].action_type = "RULE_ENGINE"
                /\ actions[i].action_at < loc[c].now

C5_Step ==
    \A c \in Clients :
        /\ (UpdateStep(c) /\ loc[c].result.decision = "YES") =>
              LET new == apps'[loc[c].ref] IN
                  /\ new.mt700_draft # Null
                  /\ new.mt700_draft[1].ref = loc[c].ref
                  /\ new.mt700_draft[1].issued = loc[c].now
                  /\ new.mt700_generated_at # Null
                  /\ new.mt700_generated_at = new.stp_run_at
        /\ CompleteStep(c) =>
              /\ resp'[c].mt700Generated <=> (loc[c].result.decision = "YES")
              /\ resp'[c].mt700Generated <=> (resp'[c].decision = "YES")

\* C5: a run that decides YES stores an MT700 draft, generated by that run, and
\* mt700_generated_at equal to that run's stp_run_at; the response's
\* mt700Generated is true exactly when the decision is YES.
C5_YesGeneratesDraft == [][C5_Step]_vars

\* C5 witness: a run has decided YES and written its UPDATE; the row holds the
\* draft of that run with mt700_generated_at = stp_run_at
C5_Witness ==
    \E c \in Clients :
        /\ pc[c] = "decision:audit"
        /\ loc[c].result.decision = "YES"
        /\ apps[loc[c].ref].stp_decision = "YES"
        /\ apps[loc[c].ref].mt700_draft # Null
        /\ apps[loc[c].ref].mt700_generated_at = Some(loc[c].now)
        /\ apps[loc[c].ref].stp_run_at = Some(loc[c].now)

\* no decision run is in flight
DecisionQuiet == \A c \in Clients : pc[c] \notin {"decision:update", "decision:audit"}

\* the RULE_ENGINE entries of ref, by position in the audit trail
RuleEngineEntries(ref) ==
    {i \in 1..Len(actions) :
        actions[i].ref = ref /\ actions[i].action_type = "RULE_ENGINE"}

\* the most recent RULE_ENGINE entry of ref
LastRuleEngineEntry(ref) ==
    actions[CHOOSE i \in RuleEngineEntries(ref) : \A j \in RuleEngineEntries(ref) : j <= i]

\* C6: the decision and its audit entry never diverge: once no run is in flight,
\* an application a run has written has a RULE_ENGINE entry, and the most recent
\* one records the stored stp_decision.
C6_DecisionMatchesAudit ==
    DecisionQuiet =>
        \A r \in TargetRefs \cap DOMAIN apps :
            decidedFrom[r] # Null =>
                /\ RuleEngineEntries(r) # {}
                /\ LastRuleEngineEntry(r).metadata.decision = apps[r].stp_decision

\* C7: runs on one application are serialized, so none is lost: when two runs on
\* the same application have both completed with success, the stored decision is
\* the one computed from what the run that read last has read.
C7_LastReadWins ==
    \A r \in TargetRefs \cap DOMAIN apps :
        (/\ \A c \in Clients : pc[c] = "idle" /\ DecisionResponse(resp[c]) /\ resp[c].ref = r
         /\ issued["decision"] = 2)
            => apps[r].stp_decision = DecisionFor(lastRead[r][1]).decision

---------------------------------------------------------------------------
(* The discrepancy review engine *)

\* the positions in a discrepancy list of the entries of one severity
OfSeverity(discs, severity) == {i \in 1..Len(discs) : discs[i].severity = severity}

\* C8: the summary of runDiscrepancyCheck is consistent with its list: fatal,
\* major and minor are the numbers of listed discrepancies of that severity, total
\* = fatal + major + minor = the length of the list, and overall is DISCREPANT iff
\* fatal + major > 0, MINOR_DISCREPANCIES iff fatal + major = 0 and minor > 0,
\* COMPLIANT iff the list is empty.
C8_SummaryConsistent ==
    cret # Null =>
        LET discs == cret[1].discrepancies
            sm    == cret[1].summary
        IN  /\ sm.fatal = Cardinality(OfSeverity(discs, "FATAL"))
            /\ sm.major = Cardinality(OfSeverity(discs, "MAJOR"))
            /\ sm.minor = Cardinality(OfSeverity(discs, "MINOR"))
            /\ sm.total = sm.fatal + sm.major + sm.minor
            /\ sm.total = Len(discs)
            /\ (sm.overall = "DISCREPANT") <=> (sm.fatal + sm.major > 0)
            /\ (sm.overall = "MINOR_DISCREPANCIES") <=> (sm.fatal + sm.major = 0 /\ sm.minor > 0)
            /\ (sm.overall = "COMPLIANT") <=> (discs = << >>)

\* C8 witness: a call has returned a MAJOR discrepancy and no FATAL one
C8_Witness ==
    /\ cret # Null
    /\ cret[1].summary.major > 0
    /\ cret[1].summary.fatal = 0
    /\ cret[1].summary.overall = "DISCREPANT"

\* the entries of a discrepancy list on the invoice amount, of one severity
AmountEntries(discs, severity) ==
    {i \in 1..Len(discs) :
        discs[i].field_name.label = "Invoice Amount" /\ discs[i].severity = severity}

\* C9: for every LC amount >= 0, every stored tolerance >= 0 (0 included) and every
\* invoice amount, the list holds exactly one MAJOR entry on 'Invoice Amount' iff
\* invoice > lcAmount * (1 + tolerance/100), exactly one MINOR entry iff invoice <
\* 0.5 * lcAmount * (1 - tolerance/100), and no entry on the amount otherwise.
C9_AmountTolerance ==
    cret # Null =>
        LET discs     == cret[1].discrepancies
            lcAmt     == cargs.lcApp.lc_amount.n
            tolerance == cargs.lcApp.tolerance_pct.n
            invoice   == cargs.docPresentation.invoice_amount.n
            above     == 100 * invoice > lcAmt * (100 + tolerance)
            below     == 200 * invoice < lcAmt * (100 - tolerance)
        IN  /\ Cardinality(AmountEntries(discs, "MAJOR")) = (IF above THEN 1 ELSE 0)
            /\ Cardinality(AmountEntries(discs, "MINOR")) = (IF below THEN 1 ELSE 0)
            /\ AmountEntries(discs, "FATAL") = {}

---------------------------------------------------------------------------
(* The examination, POST /api/examine/:ref *)

\* the DOCUMENT_EXAM entries of ref in the audit trail
ExamEntries(ref) ==
    {i \in 1..Len(actions) :
        actions[i].ref = ref /\ actions[i].action_type = "DOCUMENT_EXAM"}

C10_Step ==
    \A c \in Clients :
        (pc[c] = "exam:audit" /\ pc'[c] = "idle") =>
            LET ref  == loc[c].ref
                rows == DiscrepanciesOf(discrepancies', ref)
            IN  /\ \E id \in LatestPresentations(ref) :
                      LET found == runDiscrepancyCheck(apps[ref], presentations[id]).discrepancies
                      IN  rows = [i \in 1..Len(found) |-> DiscrepancyRow(ref, id, found[i])]
                /\ (examined[ref] # Null
                      /\ examined[ref][1].presentationId = loc[c].presentationId)
                        => Len(rows) = examined[ref][1].rows

\* C10: examination does not add up across runs made one after another: when a
\* run completes, the discrepancy rows stored for the reference are exactly the
\* discrepancies the rules yield for the application and its most recently
\* submitted presentation, each with status Open and that presentation's id; a run
\* on the presentation the run before it examined leaves as many rows as that run.
C10_ExamReplaces == [][C10_Step]_vars

\* C10 witness: two examinations of the one presentation submitted have completed
\* and the reference has discrepancy rows
C10_Witness ==
    /\ Len(presentations) = 1
    /\ Cardinality(ExamEntries(ExamRef)) = 2
    /\ pc["c1"] = "idle"
    /\ DiscrepanciesOf(discrepancies, ExamRef) # << >>
    /\ examined[ExamRef] # Null
    /\ examined[ExamRef][1].rows = Len(DiscrepanciesOf(discrepancies, ExamRef))


---------------------------------------------------------------------------
(* src/lc-generator.js, SECTION 1 - mandatory field validator *)

\* a key the record `data` does not have
Undef == [k |-> "undefined", n |-> 0, s |-> << >>]

DigitChar(d) ==
    CASE d = 0 -> "0" [] d = 1 -> "1" [] d = 2 -> "2" [] d = 3 -> "3" [] d = 4 -> "4"
      [] d = 5 -> "5" [] d = 6 -> "6" [] d = 7 -> "7" [] d = 8 -> "8" [] OTHER -> "9"

\* String(n) of a non-negative integer
RECURSIVE NatString(_)
NatString(n) == IF n < 10 THEN <<DigitChar(n)>> ELSE NatString(n \div 10) \o <<DigitChar(n % 10)>>

\* the ten characters of a date text 'YYYY-MM-DD'; the generator inspects a date
\* text as a string only to see that it is neither empty nor '0'
DateChars == <<"Y", "Y", "Y", "Y", "-", "M", "M", "-", "D", "D">>

\* String(val), for a val that is neither undefined nor null
StringOf(v) ==
    CASE v.k = "num" -> IF v.n < 0 THEN <<"-">> \o NatString(-v.n) ELSE NatString(v.n)
      [] v.k = "date" -> DateChars
      [] OTHER -> v.s

MANDATORY_FIELDS ==
    << [key |-> "applicantName", label |-> "Applicant Name"],
       [key |-> "beneficiaryName", label |-> "Beneficiary Name"],
       [key |-> "lcAmount", label |-> "LC Amount"],
       [key |-> "lcCurrency", label |-> "LC Currency"],
       [key |-> "lcExpiryDate", label |-> "Expiry Date"],
       [key |-> "portLoading", label |-> "Port of Loading"],
       [key |-> "portDischarge", label |-> "Port of Discharge"],
       [key |-> "goodsDesc", label |-> "Description of Goods"],
       [key |-> "paymentTerms", label |-> "Payment Terms"],
       [key |-> "issuingBank", label |-> "Issuing Bank"] >>

\* a validator that takes the text '0' for a value
MutPresent(val) ==
    /\ val.k # "undefined"
    /\ val.k # "null"
    /\ Trim(StringOf(val)) # << >>

\* line 43: present
Present(val) ==
    /\ val.k # "undefined"
    /\ val.k # "null"
    /\ Trim(StringOf(val)) # << >>
    /\ Trim(StringOf(val)) # <<"0">>

\* the loop of lines 41-46: the labels pushed for fields i..10
RECURSIVE MissingFrom(_, _)
MissingFrom(data, i) ==
    IF i > Len(MANDATORY_FIELDS) THEN << >>
    ELSE (IF Present(data[MANDATORY_FIELDS[i].key]) THEN << >> ELSE <<MANDATORY_FIELDS[i].label>>)
         \o MissingFrom(data, i + 1)

FieldStatus(data) ==
    [key \in {MANDATORY_FIELDS[i].key : i \in 1..Len(MANDATORY_FIELDS)} |->
        [label |-> (CHOOSE f \in {MANDATORY_FIELDS[i] : i \in 1..Len(MANDATORY_FIELDS)} :
                        f.key = key).label,
         present |-> Present(data[key]),
         value |-> data[key]]]

validCurrencies ==
    { <<"U", "S", "D">>, <<"E", "U", "R">>, <<"G", "B", "P">>, <<"I", "N", "R">>,
      <<"J", "P", "Y">>, <<"A", "E", "D">>, <<"S", "G", "D">>, <<"C", "N", "Y">>,
      <<"C", "H", "F">>, <<"C", "A", "D">>, <<"A", "U", "D">> }

\* a warning: its wording and the values substituted into it
Warning(kind, args) == [kind |-> kind, args |-> args]

\* lines 51-57.  shipD >= expD is false when either is an Invalid Date.
ShipDateWarning(data) ==
    IF /\ Truthy(data.latestShipDate)
       /\ Truthy(data.lcExpiryDate)
       /\ DateOf(data.latestShipDate) # Null
       /\ DateOf(data.lcExpiryDate) # Null
       /\ DateOf(data.latestShipDate)[1] >= DateOf(data.lcExpiryDate)[1]
    THEN <<Warning("Latest shipment date must be before LC expiry date",
                   <<data.latestShipDate, data.lcExpiryDate>>)>>
    ELSE << >>

\* lines 60-62.  NaN <= 0 is false.
AmountWarning(data) ==
    IF /\ Truthy(data.lcAmount)
       /\ ParseFloat(data.lcAmount) # Null
       /\ ParseFloat(data.lcAmount)[1] <= 0
    THEN <<Warning("LC Amount must be greater than zero.", << >>)>>
    ELSE << >>

\* lines 65-68, for a currency that is a text or absent
CurrencyWarning(data) ==
    IF Truthy(data.lcCurrency) /\ ToUpperCase(data.lcCurrency.s) \notin validCurrencies
    THEN <<Warning("Currency is non-standard. Verify ISO 4217 code.", <<data.lcCurrency>>)>>
    ELSE << >>

\* validateLC(data)
validateLC(data) ==
    LET missing == MissingFrom(data, 1)
        warnings == ShipDateWarning(data) \o AmountWarning(data) \o CurrencyWarning(data)
    IN  [valid |-> missing = << >>,
         missing |-> missing,
         warnings |-> warnings,
         fieldStatus |-> FieldStatus(data)]

---------------------------------------------------------------------------
(* src/lc-generator.js, SECTION 2 - clause generator *)

\* (v || dflt) for a field that holds a text when it holds anything truthy
TextOrDefault(v, dflt) == IF Truthy(v) THEN v.s ELSE dflt

\* lines 96-98 and 101-103: d.partialShipments === 'Yes', d.transhipment === 'Yes'
AllowedClause(v) == IF v = Yes THEN "ALLOWED" ELSE "NOT ALLOWED"

\* lines 106-115: the insurance wording, by Incoterms group
insuranceClause(inco) ==
    CASE inco \in {<<"C", "I", "F">>, <<"C", "I", "P">>} -> [kind |-> "seller arranges insurance", inco |-> inco]
      [] inco \in {<<"F", "O", "B">>, <<"E", "X", "W">>, <<"F", "C", "A">>, <<"F", "A", "S">>} -> [kind |-> "buyer insures", inco |-> inco]
      [] inco \in {<<"D", "A", "P">>, <<"D", "D", "P">>, <<"D", "P", "U">>} -> [kind |-> "seller bears risk", inco |-> inco]
      [] OTHER -> [kind |-> "unless otherwise agreed", inco |-> << >>]

\* the position after the decimal digits that start at position i of s
RECURSIVE DigitRunEnd(_, _)
DigitRunEnd(s, i) ==
    IF i <= Len(s) /\ DigitVal(s[i]) >= 0 THEN DigitRunEnd(s, i + 1) ELSE i

\* the position after the blanks that start at position i of s
RECURSIVE BlankRunEnd(_, _)
BlankRunEnd(s, i) == IF i <= Len(s) /\ s[i] = " " THEN BlankRunEnd(s, i + 1) ELSE i

\* /(\d+)\s*day/ matches s from position i
DayMatchAt(s, i) ==
    /\ DigitRunEnd(s, i) > i
    /\ LET j == BlankRunEnd(s, DigitRunEnd(s, i))
       IN  j + 2 <= Len(s) /\ SubSeq(s, j, j + 2) = <<"d", "a", "y">>

\* payTerms.match(/(\d+)\s*day/i): group 1 of the leftmost match, or Null
dayMatch(s) ==
    IF \E i \in 1..Len(s) : DayMatchAt(s, i)
    THEN LET i == CHOOSE i \in 1..Len(s) :
                      DayMatchAt(s, i) /\ \A h \in 1..(i - 1) : ~DayMatchAt(s, h)
         IN  Some(SubSeq(s, i, DigitRunEnd(s, i) - 1))
    ELSE Null

\* lines 118-131: the payment wording and the day count substituted into it
PaymentClause(payTerms, lcType) ==
    IF Includes(payTerms, <<"s", "i", "g", "h", "t">>) \/ lcType = <<"s", "i", "g", "h", "t">>
    THEN [kind |-> "PAYMENT AT SIGHT", days |-> Null]
    ELSE IF Includes(payTerms, <<"u", "s", "a", "n", "c", "e">>) \/ Includes(payTerms, <<"d", "a", "y", "s">>) \/ lcType = <<"u", "s", "a", "n", "c", "e">>
    THEN [kind |-> "ACCEPTANCE",
          days |-> IF dayMatch(payTerms) # Null THEN dayMatch(payTerms) ELSE Some(<<"9", "0">>)]
    ELSE IF lcType = <<"s", "t", "a", "n", "d", "b", "y">>
    THEN [kind |-> "STANDBY", days |-> Null]
    ELSE IF lcType = <<"r", "e", "v", "o", "l", "v", "i", "n", "g">>
    THEN [kind |-> "REVOLVING", days |-> Null]
    ELSE [kind |-> "payment at the counters", days |-> Null]

\* lines 134-136: tol > 0 is false for NaN
ToleranceClause(tol) ==
    IF tol # Null /\ tol[1] > 0
    THEN [kind |-> "more or less", pct |-> tol]
    ELSE [kind |-> "NO tolerance", pct |-> Null]

inspKeywords ==
    { <<"i", "n", "s", "p", "e", "c", "t", "i", "o", "n">>, <<"s", "g", "s">>, <<"b", "v">>, <<"b", "u", "r", "e", "a", "u", " ", "v", "e", "r", "i", "t", "a", "s">>, <<"t", "ü", "v">>, <<"t", "u", "v">>, <<"p", "r", "e", "-", "s", "h", "i", "p", "m", "e", "n", "t">>,
      <<"q", "u", "a", "l", "i", "t", "y", " ", "c", "h", "e", "c", "k">>, <<"c", "e", "i", "g">>, <<"w", "e", "i", "g", "h", "t">> }

\* lines 144-149: the inspection bodies named, in the order they are pushed
inspectionBodies(specInstr) ==
    (IF Includes(specInstr, <<"s", "g", "s">>) THEN <<"SGS">> ELSE << >>)
    \o (IF Includes(specInstr, <<"b", "v">>) \/ Includes(specInstr, <<"b", "u", "r", "e", "a", "u", " ", "v", "e", "r", "i", "t", "a", "s">>)
        THEN <<"Bureau Veritas">> ELSE << >>)
    \o (IF Includes(specInstr, <<"t", "ü", "v">>) \/ Includes(specInstr, <<"t", "u", "v">>) THEN <<"TÜV">> ELSE << >>)
    \o (IF Includes(specInstr, <<"c", "e", "i", "g">>) THEN <<"CEIG">> ELSE << >>)

\* lines 139-151: Null, or the bodies the clause names
inspectionClause(specInstr) ==
    IF \E kw \in inspKeywords : Includes(specInstr, kw)
    THEN Some(inspectionBodies(specInstr))
    ELSE Null

\* generateClauses(d).  The charges, governing-rules and presentation-period
\* clauses are fixed texts; the undertaking names the issuing bank.
generateClauses(d) ==
    LET tol == ParseFloat(JsOr(d.tolerancePct, Num(5)))
        inco == ToUpperCase(TextOrDefault(d.incoterms, << >>))
        specInstr == ToLowerCase(TextOrDefault(d.specialInstructions, << >>))
        payTerms == ToLowerCase(TextOrDefault(d.paymentTerms, <<"A", "t", " ", "S", "i", "g", "h", "t">>))
        lcType == ToLowerCase(TextOrDefault(d.lcType, <<"S", "i", "g", "h", "t">>))
    IN  [partialShipmentClause |-> AllowedClause(d.partialShipments),
         transshipmentClause |-> AllowedClause(d.transhipment),
         insuranceClause |-> insuranceClause(inco),
         paymentClause |-> PaymentClause(payTerms, lcType),
         toleranceClause |-> ToleranceClause(tol),
         inspectionClause |-> inspectionClause(specInstr),
         chargesClause |-> "Charges Clause",
         governingRulesClause |-> "Governing Rules",
         undertakingClause |-> TextOrDefault(d.issuingBank, <<"B", "a", "r", "c", "l", "a", "y", "s", " ", "B", "a", "n", "k", " ", "P", "L", "C">>),
         presentationClause |-> "Presentation Period"]

---------------------------------------------------------------------------
(* src/lc-generator.js, SECTION 2B - fee and commission calculator *)

(* Money.  A fee is amount * rate / 100 with rates of three decimals, and GST  *)
(* is 18% of that, so fees are exact in units of 1e-7; a sum of money is the   *)
(* pair of its whole units and its remaining 1e-7 sub-units.  Rates are in     *)
(* thousandths of a percent, rounded totals in hundredths.                    *)
SubPerUnit == 10000000

MoneyOf(whole, sub) == [inr |-> whole + sub \div SubPerUnit, sub |-> sub % SubPerUnit]

Plus(a, b) == MoneyOf(a.inr + b.inr, a.sub + b.sub)

\* (amount * pct) / 100, for a whole amount and pct = rate / 1000
PctOf(amount, rate) ==
    MoneyOf((amount * rate) \div 100000, ((amount * rate) % 100000) * 100)

\* a GST charged on the whole units only
MutGstOn(fees, gstRate) == MoneyOf((fees.inr * gstRate) \div 100, 0)

\* (fees * FEE_SCHEDULE.gstRate) / 100
GstOn(fees, gstRate) ==
    MoneyOf((fees.inr * gstRate) \div 100,
            ((fees.inr * gstRate) % 100) * (SubPerUnit \div 100) + (fees.sub * gstRate) \div 100)

\* round2(n) = Math.round(n * 100) / 100, in hundredths: halves round up
round2(n) == n.inr * 100 + (n.sub + SubPerUnit \div 200) \div (SubPerUnit \div 100)

FEE_SCHEDULE ==
    [tenorBands |->
        << [maxMonths |-> 3, label |-> "Up to 3 months", midRate |-> 300],
           [maxMonths |-> 6, label |-> "Up to 6 months", midRate |-> 600],
           [maxMonths |-> 12, label |-> "Up to 1 year", midRate |-> 1200],
           [maxMonths |-> 999, label |-> "Over 1 year", midRate |-> 1550] >>,
     fixedFees |-> [advisingFee |-> 5000, amendmentFee |-> 2500, courierSwiftCharges |-> 3500],
     negotiationFeePct |-> 125,
     confirmationPremiumPct |-> 150,
     gstRate |-> 18]

\* Math.ceil(a / b) for b > 0
CeilDiv(a, b) == IF a >= 0 THEN (a + b - 1) \div b ELSE -((-a) \div b)

HoursPerDay == 24

\* 30.44 days, in hundredths of an hour
MonthCentiHours == 73056

\* lines 214-221.  Times are in hours; a date text names the midnight of its day.
TenorMonths(lcExpiryDate, now) ==
    IF Truthy(lcExpiryDate) /\ DateOf(lcExpiryDate) # Null
    THEN LET diff == HoursPerDay * DateOf(lcExpiryDate)[1] - now
             months == CeilDiv(100 * diff, MonthCentiHours)
         IN  IF months > 1 THEN months ELSE 1
    ELSE 3

\* a lookup that takes the band below the matching one
MutBandFor(tenorMonths) ==
    LET bands == FEE_SCHEDULE.tenorBands
    IN  IF \E i \in 1..Len(bands) : tenorMonths < bands[i].maxMonths
        THEN bands[CHOOSE i \in 1..Len(bands) :
                      /\ tenorMonths < bands[i].maxMonths
                      /\ \A h \in 1..(i - 1) : ~(tenorMonths < bands[h].maxMonths)]
        ELSE bands[Len(bands)]

\* lines 224-225: tenorBands.find(b => tenorMonths <= b.maxMonths) || the last band
BandFor(tenorMonths) ==
    LET bands == FEE_SCHEDULE.tenorBands
    IN  IF \E i \in 1..Len(bands) : tenorMonths <= bands[i].maxMonths
        THEN bands[CHOOSE i \in 1..Len(bands) :
                      /\ tenorMonths <= bands[i].maxMonths
                      /\ \A h \in 1..(i - 1) : ~(tenorMonths <= bands[h].maxMonths)]
        ELSE bands[Len(bands)]

\* line 235: !!(data.confirmingBank && data.confirmingBank.trim())
HasConfirmation(confirmingBank) == Truthy(confirmingBank) /\ Trim(confirmingBank.s) # << >>

\* lines 227-258: the amounts computed before they are rounded for the result
FeeTotals(amount, band, hasConfirmation) ==
    LET issuanceCommission == PctOf(amount, band.midRate)
        negotiationFee == PctOf(amount, FEE_SCHEDULE.negotiationFeePct)
        confirmationPremium ==
            IF hasConfirmation THEN PctOf(amount, FEE_SCHEDULE.confirmationPremiumPct)
            ELSE MoneyOf(0, 0)
        totalVariableFees == Plus(Plus(issuanceCommission, negotiationFee), confirmationPremium)
        totalFixedFees ==
            MoneyOf(FEE_SCHEDULE.fixedFees.advisingFee + FEE_SCHEDULE.fixedFees.courierSwiftCharges, 0)
        gstOnVariable == GstOn(totalVariableFees, FEE_SCHEDULE.gstRate)
        gstOnFixed == GstOn(totalFixedFees, FEE_SCHEDULE.gstRate)
        totalFeesBeforeGST == Plus(totalVariableFees, totalFixedFees)
        totalGST == Plus(gstOnVariable, gstOnFixed)
    IN  [issuanceCommission |-> issuanceCommission, negotiationFee |-> negotiationFee,
         confirmationPremium |-> confirmationPremium,
         totalVariableFees |-> totalVariableFees, totalFixedFees |-> totalFixedFees,
         gstOnVariable |-> gstOnVariable, gstOnFixed |-> gstOnFixed,
         totalFeesBeforeGST |-> totalFeesBeforeGST, totalGST |-> totalGST,
         grandTotal |-> Plus(totalFeesBeforeGST, totalGST)]

\* the amounts calculateLCFees(data) computes when called at time `now`, for an
\* lcAmount that parses as a number
FeeLocals(data, now) ==
    FeeTotals(ParseFloat(JsOr(data.lcAmount, Num(0)))[1],
              BandFor(TenorMonths(data.lcExpiryDate, now)),
              HasConfirmation(data.confirmingBank))

\* calculateLCFees(data) called at time `now`
calculateLCFees(data, now) ==
    LET amount == ParseFloat(JsOr(data.lcAmount, Num(0)))[1]
        currency == ToUpperCase(TextOrDefault(data.lcCurrency, <<"U", "S", "D">>))
        tenorMonths == TenorMonths(data.lcExpiryDate, now)
        band == BandFor(tenorMonths)
        hasConfirmation == HasConfirmation(data.confirmingBank)
        t == FeeTotals(amount, band, hasConfirmation)
        row(item, money, cur, type) ==
            [item |-> item, amount |-> round2(money), currency |-> cur, type |-> type]
    IN  [tenorMonths |-> tenorMonths,
         tenorBand |-> band.label,
         appliedRate |-> band.midRate,
         currency |-> currency,
         lcAmount |-> amount,
         breakdown |->
            << row("LC Issuance Commission", t.issuanceCommission, currency, "variable"),
               row("Negotiation / Acceptance Fee", t.negotiationFee, currency, "variable") >>
            \o (IF hasConfirmation
                THEN <<row("Confirmation Premium", t.confirmationPremium, currency, "variable")>>
                ELSE << >>)
            \o << row("Advising Fee (Flat)", MoneyOf(FEE_SCHEDULE.fixedFees.advisingFee, 0),
                      <<"I", "N", "R">>, "fixed"),
                  row("Courier / SWIFT Charges",
                      MoneyOf(FEE_SCHEDULE.fixedFees.courierSwiftCharges, 0), <<"I", "N", "R">>, "fixed") >>,
         amendmentFee |-> FEE_SCHEDULE.fixedFees.amendmentFee,
         subtotal |-> round2(t.totalFeesBeforeGST),
         gstRate |-> FEE_SCHEDULE.gstRate,
         gstAmount |-> round2(t.totalGST),
         grandTotal |-> round2(t.grandTotal),
         totalVariableFees |-> round2(t.totalVariableFees),
         totalFixedFees |-> round2(t.totalFixedFees)]

---------------------------------------------------------------------------
(* src/lc-generator.js, SECTION 3 - the draft generator *)

\* genLCNumber(): 'BRCIN-LC-<year>-<rnd>' for the six-digit rnd that Math.random gave
genLCNumber(rnd) == Text(<<"B", "R", "C", "I", "N", "-", "L", "C", "-">> \o NatString(rnd))

\* a generator that refuses a record the validator warned about
MutDraftBlocked(validation) == ~validation.valid \/ validation.warnings # << >>

\* line 319: the test that ends generateLCDraft with an ERROR
DraftBlocked(validation) == ~validation.valid

\* generateLCDraft(data) called at time `now`, Math.random giving rnd.  A key the
\* returned object does not have is Null.  structuredLC and draftText are
\* represented by the values substituted into them.
\* lines 347-352: the availability word of the pre-draft
AvailableBy(data) ==
    LET lcType == ToLowerCase(TextOrDefault(data.lcType, <<"S", "i", "g", "h", "t">>))
    IN  IF lcType = <<"s", "i", "g", "h", "t">> THEN <<"P", "A", "Y", "M", "E", "N", "T">>
        ELSE IF lcType = <<"u", "s", "a", "n", "c", "e">> THEN <<"A", "C", "C", "E", "P", "T", "A", "N", "C", "E">>
        ELSE IF lcType = <<"s", "t", "a", "n", "d", "b", "y">> THEN <<"P", "A", "Y", "M", "E", "N", "T">>
        ELSE <<"N", "E", "G", "O", "T", "I", "A", "T", "I", "O", "N">>

generateLCDraft(data, now, rnd) ==
    LET validation == validateLC(data)
    IN  IF DraftBlocked(validation)
        THEN [status |-> "ERROR",
              missing_fields |-> Some(validation.missing),
              warnings |-> Some(validation.warnings),
              validationSummary |-> validation,
              lcNumber |-> Null, issueDate |-> Null, structuredLC |-> Null,
              clauses |-> Null, feeSchedule |-> Null, draftText |-> Null]
        ELSE LET clauses == generateClauses(data)
                 feeSchedule == calculateLCFees(data, now)
                 lcNumber == IF Truthy(data.ref) THEN data.ref ELSE genLCNumber(rnd)
                 structuredLC ==
                     [creditNumber |-> lcNumber,
                      currency |-> ToUpperCase(TextOrDefault(data.lcCurrency, <<"U", "S", "D">>)),
                      amount |-> ParseFloat(JsOr(data.lcAmount, Num(0))),
                      tolerance |-> ParseFloat(JsOr(data.tolerancePct, Num(5))),
                      availableBy |-> AvailableBy(data)]
             IN  [status |-> "SUCCESS",
                  missing_fields |-> Null,
                  warnings |-> Null,
                  validationSummary |-> validation,
                  lcNumber |-> Some(lcNumber),
                  issueDate |-> Some(now \div HoursPerDay),
                  structuredLC |-> Some(structuredLC),
                  clauses |-> Some(clauses),
                  feeSchedule |-> Some(feeSchedule),
                  draftText |-> Some([structuredLC |-> structuredLC, clauses |-> clauses,
                                      feeSchedule |-> feeSchedule])]

---------------------------------------------------------------------------
(* STEP 11 - the text of the MT700 draft, line by line *)

\* (app.column || dflt).toUpperCase(), for a TEXT column
Upper(v, dflt) == ToUpperCase(TextOrDefault(v, dflt))

\* s.replace(/-/g, '')
RECURSIVE RemoveDashes(_)
RemoveDashes(s) ==
    IF s = << >> THEN << >>
    ELSE (IF Head(s) = "-" THEN << >> ELSE <<Head(s)>>) \o RemoveDashes(Tail(s))

\* items.join(sep)
RECURSIVE Join(_, _)
Join(items, sep) ==
    IF items = << >> THEN << >>
    ELSE IF Len(items) = 1 THEN items[1]
    ELSE items[1] \o sep \o Join(Tail(items), sep)

\* x.toFixed(2) of a whole number, or of NaN
toFixed2(x) == IF x = Null THEN <<"N", "a", "N">> ELSE StringOf(Num(x[1])) \o <<".", "0", "0">>

\* a template that leaves the confirmation block out when no bank confirms
MutMT700Kept(app, lines) ==
    IF Truthy(app.confirming_bank) THEN lines
    ELSE SelectSeq(lines, LAMBDA l : l # <<":", "4", "9", ":", " ", "C", "O", "N", "F", "I", "R", "M", "A", "T", "I", "O", "N", " ", "I", "N", "S", "T", "R", "U", "C", "T", "I", "O", "N", "S">>)

\* the lines of the template that are emitted: all of them
MT700Kept(app, lines) == lines

\* lines 360-464 of generateMT700(app), called on the day `day`: the lines of the
\* message.  The date of issue is written by the digits of the day, and the dash
\* of the title line is the ASCII one.
MT700Lines(app, day) ==
    MT700Kept(app,
    << <<"*", "*", "*", "*", "*", " ", "S", "W", "I", "F", "T", " ", "M", "T", "7", "0", "0", " ", "-", " ", "I", "S", "S", "U", "E", " ", "O", "F", " ", "A", " ", "D", "O", "C", "U", "M", "E", "N", "T", "A", "R", "Y", " ", "C", "R", "E", "D", "I", "T", " ", "*", "*", "*", "*", "*">>,
       <<"G", "e", "n", "e", "r", "a", "t", "e", "d", " ", "b", "y", ":", " ", "B", "a", "r", "c", "l", "a", "y", "s", " ", "L", "C", " ", "S", "y", "s", "t", "e", "m", " ", "|", " ">> \o NatString(day),
       <<"=", "=", "=", "=", "=", "=", "=", "=", "=", "=", "=", "=", "=", "=", "=", "=", "=", "=", "=", "=", "=", "=", "=", "=", "=", "=", "=", "=", "=", "=", "=", "=", "=", "=", "=", "=", "=", "=", "=", "=", "=", "=", "=", "=", "=", "=", "=", "=", "=", "=", "=", "=", "=", "=", "=", "=", "=", "=", "=", "=", "=", "=", "=", "=", "=", "=", "=", "=", "=", "=">>,
       << >>,
       <<":", "2", "7", ":", " ", "S", "E", "Q", "U", "E", "N", "C", "E", " ", "O", "F", " ", "T", "O", "T", "A", "L">>,
       <<"1", "/", "1">>,
       << >>,
       <<":", "4", "0", "A", ":", " ", "F", "O", "R", "M", " ", "O", "F", " ", "D", "O", "C", "U", "M", "E", "N", "T", "A", "R", "Y", " ", "C", "R", "E", "D", "I", "T">>,
       Upper(app.lc_type, <<"S", "I", "G", "H", "T">>) \o <<" ", "I", "R", "R", "E", "V", "O", "C", "A", "B", "L", "E">>,
       << >>,
       <<":", "2", "0", ":", " ", "D", "O", "C", "U", "M", "E", "N", "T", "A", "R", "Y", " ", "C", "R", "E", "D", "I", "T", " ", "N", "U", "M", "B", "E", "R">>,
       TextOrDefault(app.ref, <<"T", "B", "D">>),
       << >>,
       <<":", "3", "1", "C", ":", " ", "D", "A", "T", "E", " ", "O", "F", " ", "I", "S", "S", "U", "E">>,
       NatString(day),
       << >>,
       <<":", "4", "0", "E", ":", " ", "A", "P", "P", "L", "I", "C", "A", "B", "L", "E", " ", "R", "U", "L", "E", "S">>,
       <<"U", "C", "P", " ", "L", "A", "T", "E", "S", "T", " ", "V", "E", "R", "S", "I", "O", "N">>,
       << >>,
       <<":", "3", "1", "D", ":", " ", "D", "A", "T", "E", " ", "A", "N", "D", " ", "P", "L", "A", "C", "E", " ", "O", "F", " ", "E", "X", "P", "I", "R", "Y">>,
       RemoveDashes(TextOrDefault(app.lc_expiry_date, << >>)) \o <<" ">> \o Upper(app.lc_expiry_place, << >>),
       << >>,
       <<":", "5", "0", ":", " ", "A", "P", "P", "L", "I", "C", "A", "N", "T">>,
       Upper(app.applicant_name, << >>),
       Upper(app.applicant_address, << >>),
       Upper(app.applicant_city, << >>) \o <<",", " ">> \o Upper(app.applicant_country, << >>),
       << >>,
       <<":", "5", "9", ":", " ", "B", "E", "N", "E", "F", "I", "C", "I", "A", "R", "Y">>,
       Upper(app.beneficiary_name, << >>),
       Upper(app.beneficiary_address, << >>),
       Upper(app.beneficiary_city, << >>) \o <<",", " ">> \o Upper(app.beneficiary_country, << >>),
       << >>,
       <<":", "3", "2", "B", ":", " ", "C", "U", "R", "R", "E", "N", "C", "Y", " ", "C", "O", "D", "E", ",", " ", "A", "M", "O", "U", "N", "T">>,
       Upper(app.lc_currency, <<"U", "S", "D">>) \o toFixed2(ParseFloat(JsOr(app.lc_amount, Num(0)))),
       << >>,
       <<":", "3", "9", "A", ":", " ", "P", "E", "R", "C", "E", "N", "T", "A", "G", "E", " ", "C", "R", "E", "D", "I", "T", " ", "A", "M", "O", "U", "N", "T", " ", "T", "O", "L", "E", "R", "A", "N", "C", "E">>,
       StringOf(JsOr(app.tolerance_pct, Num(5))) \o <<"/">> \o StringOf(JsOr(app.tolerance_pct, Num(5))),
       << >>,
       <<":", "4", "1", "A", ":", " ", "A", "V", "A", "I", "L", "A", "B", "L", "E", " ", "W", "I", "T", "H", ".", ".", ".", " ", "B", "Y", ".", ".", ".">>,
       Upper(app.advising_bank, <<"B", "A", "R", "C", "L", "A", "Y", "S", " ", "B", "A", "N", "K", " ", "P", "L", "C">>),
       <<"B", "Y", " ">> \o (IF app.lc_type = Text(<<"S", "i", "g", "h", "t">>) THEN <<"P", "A", "Y", "M", "E", "N", "T">>
                  ELSE IF app.lc_type = Text(<<"U", "s", "a", "n", "c", "e">>) THEN <<"A", "C", "C", "E", "P", "T", "A", "N", "C", "E">> ELSE <<"N", "E", "G", "O", "T", "I", "A", "T", "I", "O", "N">>),
       << >>,
       <<":", "4", "2", "C", ":", " ", "D", "R", "A", "F", "T", "S", " ", "A", "T", ".", ".", ".">>,
       IF app.payment_terms = Text(<<"A", "t", " ", "S", "i", "g", "h", "t">>) THEN <<"S", "I", "G", "H", "T">> ELSE Upper(app.payment_terms, <<"S", "I", "G", "H", "T">>),
       << >>,
       <<":", "4", "2", "A", ":", " ", "D", "R", "A", "W", "E", "E">>,
       Upper(app.issuing_bank, <<"B", "A", "R", "C", "L", "A", "Y", "S", " ", "B", "A", "N", "K", " ", "P", "L", "C", ",", " ", "I", "N", "D", "I", "A">>),
       << >>,
       <<":", "4", "3", "P", ":", " ", "P", "A", "R", "T", "I", "A", "L", " ", "S", "H", "I", "P", "M", "E", "N", "T", "S">>,
       IF app.partial_shipments = Yes THEN <<"A", "L", "L", "O", "W", "E", "D">> ELSE <<"N", "O", "T", " ", "A", "L", "L", "O", "W", "E", "D">>,
       << >>,
       <<":", "4", "3", "T", ":", " ", "T", "R", "A", "N", "S", "H", "I", "P", "M", "E", "N", "T">>,
       IF app.transhipment = Yes THEN <<"A", "L", "L", "O", "W", "E", "D">> ELSE <<"N", "O", "T", " ", "A", "L", "L", "O", "W", "E", "D">>,
       << >>,
       <<":", "4", "4", "E", ":", " ", "P", "O", "R", "T", " ", "O", "F", " ", "L", "O", "A", "D", "I", "N", "G", "/", "A", "I", "R", "P", "O", "R", "T", " ", "O", "F", " ", "D", "E", "P", "A", "R", "T", "U", "R", "E">>,
       Upper(app.port_loading, << >>),
       << >>,
       <<":", "4", "4", "F", ":", " ", "P", "O", "R", "T", " ", "O", "F", " ", "D", "I", "S", "C", "H", "A", "R", "G", "E", "/", "A", "I", "R", "P", "O", "R", "T", " ", "O", "F", " ", "D", "E", "S", "T", "I", "N", "A", "T", "I", "O", "N">>,
       Upper(app.port_discharge, << >>),
       << >>,
       <<":", "4", "4", "C", ":", " ", "L", "A", "T", "E", "S", "T", " ", "D", "A", "T", "E", " ", "O", "F", " ", "S", "H", "I", "P", "M", "E", "N", "T">>,
       RemoveDashes(TextOrDefault(app.latest_ship_date, << >>)),
       << >>,
       <<":", "4", "4", "B", ":", " ", "P", "L", "A", "C", "E", " ", "O", "F", " ", "F", "I", "N", "A", "L", " ", "D", "E", "S", "T", "I", "N", "A", "T", "I", "O", "N">>,
       Upper(app.port_discharge, << >>),
       << >>,
       <<":", "4", "5", "A", ":", " ", "D", "E", "S", "C", "R", "I", "P", "T", "I", "O", "N", " ", "O", "F", " ", "G", "O", "O", "D", "S", " ", "A", "N", "D", "/", "O", "R", " ", "S", "E", "R", "V", "I", "C", "E", "S">>,
       Upper(app.goods_desc, << >>),
       <<"Q", "U", "A", "N", "T", "I", "T", "Y", ":", " ">> \o Upper(app.quantity, << >>),
       <<"U", "N", "I", "T", " ", "P", "R", "I", "C", "E", ":", " ">> \o Upper(app.unit_price, << >>),
       <<"H", "S", " ", "C", "O", "D", "E", ":", " ">> \o TextOrDefault(app.hs_code, <<"N", "/", "A">>),
       <<"C", "O", "U", "N", "T", "R", "Y", " ", "O", "F", " ", "O", "R", "I", "G", "I", "N", ":", " ">> \o Upper(app.country_origin, << >>),
       <<"I", "N", "C", "O", "T", "E", "R", "M", "S", ":", " ">> \o Upper(app.incoterms, << >>),
       << >>,
       <<":", "4", "6", "A", ":", " ", "D", "O", "C", "U", "M", "E", "N", "T", "S", " ", "R", "E", "Q", "U", "I", "R", "E", "D">>,
       ToUpperCase(Join(safeJSON(app.documents, << >>), <<",", "\n", " ">>)),
       IF Truthy(app.additional_docs) THEN ToUpperCase(app.additional_docs.s) ELSE << >>,
       << >>,
       <<":", "4", "7", "A", ":", " ", "A", "D", "D", "I", "T", "I", "O", "N", "A", "L", " ", "C", "O", "N", "D", "I", "T", "I", "O", "N", "S">>,
       Upper(app.special_instructions, <<"N", "I", "L">>),
       << >>,
       <<":", "7", "1", "B", ":", " ", "C", "H", "A", "R", "G", "E", "S">>,
       <<"A", "L", "L", " ", "B", "A", "N", "K", "I", "N", "G", " ", "C", "H", "A", "R", "G", "E", "S", " ", "O", "U", "T", "S", "I", "D", "E", " ", "I", "N", "D", "I", "A", " ", "A", "R", "E", " ", "F", "O", "R", " ", "A", "C", "C", "O", "U", "N", "T", " ", "O", "F", " ", "B", "E", "N", "E", "F", "I", "C", "I", "A", "R", "Y">>,
       << >>,
       <<":", "4", "8", ":", " ", "P", "E", "R", "I", "O", "D", " ", "F", "O", "R", " ", "P", "R", "E", "S", "E", "N", "T", "A", "T", "I", "O", "N">>,
       <<"D", "O", "C", "U", "M", "E", "N", "T", "S", " ", "T", "O", " ", "B", "E", " ", "P", "R", "E", "S", "E", "N", "T", "E", "D", " ", "W", "I", "T", "H", "I", "N", " ", "2", "1", " ", "D", "A", "Y", "S", " ", "A", "F", "T", "E", "R", " ", "D", "A", "T", "E", " ", "O", "F", " ", "S", "H", "I", "P", "M", "E", "N", "T">>,
       <<"B", "U", "T", " ", "W", "I", "T", "H", "I", "N", " ", "T", "H", "E", " ", "V", "A", "L", "I", "D", "I", "T", "Y", " ", "O", "F", " ", "T", "H", "E", " ", "C", "R", "E", "D", "I", "T", ".">>,
       << >>,
       <<":", "4", "9", ":", " ", "C", "O", "N", "F", "I", "R", "M", "A", "T", "I", "O", "N", " ", "I", "N", "S", "T", "R", "U", "C", "T", "I", "O", "N", "S">>,
       IF Truthy(app.confirming_bank) THEN <<"C", "O", "N", "F", "I", "R", "M">> ELSE <<"W", "I", "T", "H", "O", "U", "T">>,
       << >>,
       <<":", "5", "3", "A", ":", " ", "R", "E", "I", "M", "B", "U", "R", "S", "I", "N", "G", " ", "B", "A", "N", "K">>,
       ToUpperCase(JsOr(app.confirming_bank, JsOr(app.advising_bank, Text(<<"B", "A", "R", "C", "L", "A", "Y", "S", " ", "B", "A", "N", "K", " ", "P", "L", "C">>))).s),
       << >>,
       <<":", "7", "8", ":", " ", "I", "N", "S", "T", "R", "U", "C", "T", "I", "O", "N", "S", " ", "T", "O", " ", "T", "H", "E", " ", "P", "A", "Y", "I", "N", "G", "/", "A", "C", "C", "E", "P", "T", "I", "N", "G", "/", "N", "E", "G", "O", "T", "I", "A", "T", "I", "N", "G", " ", "B", "A", "N", "K">>,
       <<"A", "L", "L", " ", "D", "O", "C", "U", "M", "E", "N", "T", "S", " ", "M", "U", "S", "T", " ", "B", "E", " ", "F", "O", "R", "W", "A", "R", "D", "E", "D", " ", "T", "O", " ", "U", "S", " ", "I", "N", " ", "O", "N", "E", " ", "L", "O", "T", " ", "B", "Y", " ", "C", "O", "U", "R", "I", "E", "R", ".">>,
       <<"U", "P", "O", "N", " ", "R", "E", "C", "E", "I", "P", "T", " ", "O", "F", " ", "D", "O", "C", "U", "M", "E", "N", "T", "S", " ", "S", "T", "R", "I", "C", "T", "L", "Y", " ", "C", "O", "M", "P", "L", "Y", "I", "N", "G", " ", "W", "I", "T", "H", " ", "T", "H", "E", " ", "T", "E", "R", "M", "S", " ", "A", "N", "D">>,
       <<"C", "O", "N", "D", "I", "T", "I", "O", "N", "S", " ", "O", "F", " ", "T", "H", "I", "S", " ", "C", "R", "E", "D", "I", "T", ",", " ", "W", "E", " ", "S", "H", "A", "L", "L", " ", "R", "E", "I", "M", "B", "U", "R", "S", "E", " ", "A", "S", " ", "P", "E", "R", " ", "Y", "O", "U", "R", " ", "I", "N", "S", "T", "R", "U", "C", "T", "I", "O", "N", "S", ".">>,
       << >>,
       <<":", "7", "2", ":", " ", "S", "E", "N", "D", "E", "R", " ", "T", "O", " ", "R", "E", "C", "E", "I", "V", "E", "R", " ", "I", "N", "F", "O", "R", "M", "A", "T", "I", "O", "N">>,
       <<"I", "S", "S", "U", "E", "D", " ", "S", "U", "B", "J", "E", "C", "T", " ", "T", "O", " ", "U", "C", "P", " ", "6", "0", "0", ".">>,
       <<"F", "O", "R", " ", "B", "A", "R", "C", "L", "A", "Y", "S", " ", "B", "A", "N", "K", " ", "P", "L", "C", ",", " ">> \o Upper(app.issuing_bank, <<"I", "N", "D", "I", "A">>),
       << >>,
       <<"=", "=", "=", "=", "=", "=", "=", "=", "=", "=", "=", "=", "=", "=", "=", "=", "=", "=", "=", "=", "=", "=", "=", "=", "=", "=", "=", "=", "=", "=", "=", "=", "=", "=", "=", "=", "=", "=", "=", "=", "=", "=", "=", "=", "=", "=", "=", "=", "=", "=", "=", "=", "=", "=", "=", "=", "=", "=", "=", "=", "=", "=", "=", "=", "=", "=", "=", "=", "=", "=">>,
       <<"*", "*", "*", "*", "*", " ", "E", "N", "D", " ", "O", "F", " ", "M", "T", "7", "0", "0", " ", "M", "E", "S", "S", "A", "G", "E", " ", "*", "*", "*", "*", "*">> >>)

\* the tag a line opens with (':' then two digits, an optional capital letter, ':'),
\* or Null
TagOf(line) ==
    IF /\ Len(line) >= 4
       /\ line[1] = ":"
       /\ DigitVal(line[2]) >= 0
       /\ DigitVal(line[3]) >= 0
    THEN IF line[4] = ":" THEN Some(SubSeq(line, 1, 4))
         ELSE IF Len(line) >= 5 /\ line[5] = ":" /\ UpperChar(line[4]) = line[4]
                 /\ LowerChar(line[4]) # line[4]
         THEN Some(SubSeq(line, 1, 5))
         ELSE Null
    ELSE Null

\* the tags of a message, in the order they appear
RECURSIVE TagsOf(_)
TagsOf(lines) ==
    IF lines = << >> THEN << >>
    ELSE (IF TagOf(Head(lines)) = Null THEN << >> ELSE <<TagOf(Head(lines))[1]>>)
         \o TagsOf(Tail(lines))

---------------------------------------------------------------------------
(* The generator called on application records *)

MaxCalls == 2

\* the times of the calls, in hours since the midnight of day 0
GenTimes == {0, 13}

\* a complete application, as POST /api/lc-predraft/:ref maps it from a row
BaseData ==
    [ref |-> Text(<<"B", "R", "C", "-", "L", "C", "-", "1">>),
     applicantName |-> Text(<<"A", "c", "m", "e">>), beneficiaryName |-> Text(<<"O", "r", "i", "o", "n">>),
     lcType |-> Text(<<"S", "i", "g", "h", "t">>), lcCurrency |-> Text(<<"U", "S", "D">>), lcAmount |-> Num(100000),
     lcExpiryDate |-> DateText(100), partialShipments |-> Yes, transhipment |-> No,
     tolerancePct |-> Num(5), portLoading |-> Text(<<"G", "o", "a">>), portDischarge |-> Text(<<"K", "o", "c", "h", "i">>),
     latestShipDate |-> DateText(70), incoterms |-> Text(<<"C", "I", "F">>),
     goodsDesc |-> Text(<<"T", "e", "a">>), issuingBank |-> Text(<<"B", "a", "r", "c", "l", "a", "y", "s", " ", "B", "a", "n", "k", " ", "P", "L", "C", ",", " ", "I", "n", "d", "i", "a">>),
     confirmingBank |-> NullV, paymentTerms |-> Text(<<"A", "t", " ", "S", "i", "g", "h", "t">>),
     specialInstructions |-> NullV]

MandatoryKeys == {MANDATORY_FIELDS[i].key : i \in 1..Len(MANDATORY_FIELDS)}

\* values of a field that is not there, or nearly so
BlankValues ==
    {Undef, NullV, Num(0), Text(<< >>), Text(<<" ">>), Text(<<"0">>), Text(<<" ", "0", " ">>), Text(<<"0", "0">>)}

\* records with up to two, or all, of the mandatory fields blanked; no shipment date
PresenceData ==
    { [k \in DOMAIN BaseData |->
          IF k \in S THEN b ELSE IF k = "latestShipDate" THEN NullV ELSE BaseData[k]] :
      S \in {T \in SUBSET MandatoryKeys : Cardinality(T) <= 2 \/ T = MandatoryKeys},
      b \in BlankValues }

WarningAmounts ==
    {Num(-5), Num(0), Num(100), Text(<<"0">>), Text(<<"1", "0", "0">>), Text(<<"a", "b", "c">>), Text(<< >>), NullV}

WarningShipDates == {NullV, Text(<< >>), Text(<<"s", "o", "o", "n">>), DateText(99), DateText(100), DateText(101)}

WarningExpiryDates == {NullV, Text(<<"n", "e", "v", "e", "r">>), DateText(100)}

WarningCurrencies == {NullV, Text(<< >>), Text(<<"U", "S", "D">>), Text(<<"u", "s", "d">>), Text(<<"X", "Y", "Z">>)}

WarningData ==
    { [BaseData EXCEPT !.lcAmount = a, !.latestShipDate = s, !.lcExpiryDate = e,
                       !.lcCurrency = c] :
      a \in WarningAmounts, s \in WarningShipDates, e \in WarningExpiryDates,
      c \in WarningCurrencies }

ClausePaymentTerms ==
    {NullV, Text(<< >>), Text(<<"A", "t", " ", "S", "i", "g", "h", "t">>), Text(<<"9", "0", " ", "D", "a", "y", "s">>), Text(<<"U", "s", "a", "n", "c", "e">>),
     Text(<<"u", "s", "a", "n", "c", "e", " ", "6", "0", " ", "d", "a", "y">>), Text(<<"7", " ", "a", "n", "d", " ", "4", "5", "d", "a", "y", "s">>), Text(<<"D", "a", "y", "s", " ", "a", "f", "t", "e", "r", " ", "B", "L">>),
     Text(<<"D", "e", "f", "e", "r", "r", "e", "d">>), Text(<<"C", "a", "s", "h", " ", "o", "n", " ", "d", "e", "m", "a", "n", "d">>)}

ClauseTypes ==
    {NullV, Text(<<"S", "i", "g", "h", "t">>), Text(<<"U", "s", "a", "n", "c", "e">>), Text(<<"S", "t", "a", "n", "d", "b", "y">>), Text(<<"R", "e", "v", "o", "l", "v", "i", "n", "g">>),
     Text(<<"T", "r", "a", "n", "s", "f", "e", "r", "a", "b", "l", "e">>), Text(<<"S", "T", "A", "N", "D", "B", "Y">>)}

ClauseTolerances == {NullV, Num(0), Num(5), Num(10), Text(<<"0">>), Text(<<"7">>), Text(<< >>)}

ClauseData ==
    { [BaseData EXCEPT !.paymentTerms = p, !.lcType = t, !.tolerancePct = tol] :
      p \in ClausePaymentTerms, t \in ClauseTypes, tol \in ClauseTolerances }
    \cup
    { [BaseData EXCEPT !.incoterms = i, !.specialInstructions = x, !.partialShipments = y] :
      i \in {NullV, Text(<<"c", "i", "f">>), Text(<<"F", "O", "B">>), Text(<<"D", "A", "P">>), Text(<<"X", "Y", "Z">>)},
      x \in {NullV, Text(<<"S", "G", "S", " ", "I", "n", "s", "p", "e", "c", "t", "i", "o", "n">>), Text(<<"w", "e", "i", "g", "h", "t", " ", "n", "o", "t", "e", " ", "b", "y", " ", "B", "V", " ", "o", "r", " ", "t", "u", "v">>)},
      y \in {Yes, No, NullV} }

FeeAmounts ==
    {NullV, Num(0), Num(1), Num(100), Num(333), Num(100000), Num(1000000), Text(<<"2", "5", "0">>)}

FeeExpiryDays == {-5, 0, 1, 30, 31, 91, 92, 182, 183, 365, 366, 400, 30500}

FeeExpiryDates == {NullV, Text(<< >>), Text(<<"n", "/", "a">>)} \cup {DateText(d) : d \in FeeExpiryDays}

FeeData ==
    { [BaseData EXCEPT !.lcAmount = a, !.lcExpiryDate = e, !.confirmingBank = b] :
      a \in FeeAmounts, e \in FeeExpiryDates,
      b \in {NullV, Text(<<" ">>), Text(<<"H", "S", "B", "C">>)} }

DraftData ==
    { [BaseData EXCEPT !.lcAmount = a, !.lcCurrency = c, !.latestShipDate = s,
                       !.applicantName = n, !.ref = r] :
      a \in {Num(-5), Num(0), Num(100000), Text(<<"0">>)},
      c \in {NullV, Text(<<"U", "S", "D">>), Text(<<"X", "Y", "Z">>)},
      s \in {NullV, DateText(70), DateText(100)},
      n \in {NullV, Text(<<"A", "c", "m", "e">>)},
      r \in {NullV, Text(<<"B", "R", "C", "-", "L", "C", "-", "1">>)} }

\* a value Math.random can lead genLCNumber to
RandomNumbers == {100000, 999999}

\* a row with every column generateMT700 reads filled
FilledApp ==
    [ref |-> Text(<<"B", "R", "C", "-", "L", "C", "-", "1">>), lc_type |-> Text(<<"U", "s", "a", "n", "c", "e">>), lc_currency |-> Text(<<"e", "u", "r">>),
     lc_amount |-> Num(250000), lc_expiry_date |-> Text(<<"2", "0", "2", "5", "-", "0", "6", "-", "3", "0">>),
     lc_expiry_place |-> Text(<<"M", "u", "m", "b", "a", "i">>), tolerance_pct |-> Num(10),
     applicant_name |-> Text(<<"A", "c", "m", "e">>), applicant_address |-> Text(<<"1", " ", "M", "a", "i", "n", " ", "S", "t">>),
     applicant_city |-> Text(<<"P", "u", "n", "e">>), applicant_country |-> Text(<<"I", "n", "d", "i", "a">>),
     beneficiary_name |-> Text(<<"O", "r", "i", "o", "n">>), beneficiary_address |-> Text(<<"2", " ", "Q", "u", "a", "y">>),
     beneficiary_city |-> Text(<<"K", "i", "e", "l">>), beneficiary_country |-> Text(<<"G", "e", "r", "m", "a", "n", "y">>),
     advising_bank |-> Text(<<"C", "o", "m", "m", "e", "r", "z", "b", "a", "n", "k">>), confirming_bank |-> Text(<<"H", "S", "B", "C">>),
     issuing_bank |-> Text(<<"B", "a", "r", "c", "l", "a", "y", "s", " ", "B", "a", "n", "k", " ", "P", "L", "C", ",", " ", "I", "n", "d", "i", "a">>),
     payment_terms |-> Text(<<"9", "0", " ", "D", "a", "y", "s">>), partial_shipments |-> Yes, transhipment |-> Yes,
     port_loading |-> Text(<<"G", "o", "a">>), port_discharge |-> Text(<<"K", "i", "e", "l">>),
     latest_ship_date |-> Text(<<"2", "0", "2", "5", "-", "0", "5", "-", "3", "1">>), goods_desc |-> Text(<<"T", "e", "a">>),
     quantity |-> Text(<<"1", "0", " ", "M", "T">>), unit_price |-> Text(<<"2", "5">>), hs_code |-> Text(<<"0", "9", "0", "2">>),
     country_origin |-> Text(<<"I", "n", "d", "i", "a">>), incoterms |-> Text(<<"c", "i", "f">>),
     documents |-> JsonArray(<<CommercialInvoice, PackingList>>),
     additional_docs |-> Text(<<"P", "h", "y", "t", "o", " ", "c", "e", "r", "t">>), special_instructions |-> Text(<<"S", "G", "S">>)]

\* the same columns, every one empty
EmptyApp == [c \in DOMAIN FilledApp |-> NullV]

\* the sets of at most two columns
ColumnPairs == {{}} \cup {{a, b} : a \in DOMAIN FilledApp, b \in DOMAIN FilledApp}

\* rows that are filled, or empty, but for up to two columns
MT700Apps ==
    { [c \in DOMAIN FilledApp |-> IF c \in S THEN EmptyApp[c] ELSE FilledApp[c]] :
      S \in ColumnPairs }
    \cup
    { [c \in DOMAIN FilledApp |-> IF c \in S THEN FilledApp[c] ELSE EmptyApp[c]] :
      S \in ColumnPairs }

\* rows whose collateral columns are NULL, 0, a number of their own, or (for the
\* generic column) a text that is no number
CollateralRows ==
    {[collateral_primary_type |-> ty, fd_amount |-> fd, cash_margin_amount |-> cash,
      sec_market_value |-> sec, collateral_value |-> coll] :
        ty \in {Text(FD), Text(CASH), Text(LIQUID_SECURITY), Text(GOVT_BOND),
                Text(PROPERTY), Text(<<"f", "d">>), NullV},
        fd \in {NullV, Num(0), Num(1)}, cash \in {NullV, Num(0), Num(2)},
        sec \in {NullV, Num(0), Num(3)},
        coll \in {NullV, Num(0), Num(4), Text(<<"a", "b", "c">>)}}

\* const ones, from ONE
ones ==
    <<"ONE", "TWO", "THREE", "FOUR", "FIVE", "SIX", "SEVEN", "EIGHT", "NINE", "TEN",
      "ELEVEN", "TWELVE", "THIRTEEN", "FOURTEEN", "FIFTEEN", "SIXTEEN", "SEVENTEEN",
      "EIGHTEEN", "NINETEEN">>

\* const tens, from TEN (the entry for 10 is never read)
tens ==
    <<"", "TWENTY", "THIRTY", "FORTY", "FIFTY", "SIXTY", "SEVENTY", "EIGHTY", "NINETY">>

\* helper(n) of numberToWords: the words, which the code joins by single spaces
RECURSIVE helper(_)
helper(n) ==
    IF n < 20 THEN (IF n = 0 THEN << >> ELSE <<ones[n]>>)
    ELSE IF n < 100 THEN <<tens[n \div 10]>> \o (IF n % 10 # 0 THEN <<ones[n % 10]>> ELSE << >>)
    ELSE IF n < 1000
    THEN <<ones[n \div 100], "HUNDRED">>
            \o (IF n % 100 # 0 THEN <<"AND">> \o helper(n % 100) ELSE << >>)
    ELSE IF n < 100000
    THEN helper(n \div 1000) \o <<"THOUSAND">>
            \o (IF n % 1000 # 0 THEN helper(n % 1000) ELSE << >>)
    ELSE IF n < 10000000
    THEN helper(n \div 100000) \o <<"LAKH">>
            \o (IF n % 100000 # 0 THEN helper(n % 100000) ELSE << >>)
    ELSE helper(n \div 10000000) \o <<"CRORE">>
            \o (IF n % 10000000 # 0 THEN helper(n % 10000000) ELSE << >>)

\* numberToWords(num), for num >= 0 given in hundredths (NullV: not a number): the
\* words, and the NN of the ' AND NN/100' that follows them, if any
numberToWords(num) ==
    IF num.k # "num" \/ num.n = 0 THEN [words |-> <<"ZERO">>, fraction |-> Null]
    ELSE LET n == num.n \div 100
             dec == num.n - 100 * n
         IN  IF n = 0 THEN [words |-> <<"ZERO">>, fraction |-> Null]
             ELSE [words |-> helper(n), fraction |-> IF dec > 0 THEN Some(dec) ELSE Null]

\* the integer parts put into words
WordIntegers ==
    (0..120) \cup {199, 200, 999, 1000, 1001, 1100, 12345, 99999, 100000, 100001,
                   1234567, 9999999, 10000000, 12345678, 20000000}

\* the amounts put into words, in hundredths, and an input that is no number
WordAmounts ==
    {NullV} \cup {Num(100 * n + f) : n \in WordIntegers, f \in {0, 5, 50}}

\* lines 782-822 of POST /api/lc-predraft/:ref: the generator's input, from the row
PreDraftData(row) ==
    [ref |-> row.ref, applicantName |-> row.applicant_name,
     beneficiaryName |-> row.beneficiary_name, lcType |-> row.lc_type,
     lcCurrency |-> row.lc_currency, lcAmount |-> row.lc_amount,
     lcExpiryDate |-> row.lc_expiry_date, partialShipments |-> row.partial_shipments,
     transhipment |-> row.transhipment, tolerancePct |-> row.tolerance_pct,
     portLoading |-> row.port_loading, portDischarge |-> row.port_discharge,
     latestShipDate |-> row.latest_ship_date, incoterms |-> row.incoterms,
     goodsDesc |-> row.goods_desc, issuingBank |-> row.issuing_bank,
     confirmingBank |-> row.confirming_bank, paymentTerms |-> row.payment_terms,
     specialInstructions |-> row.special_instructions]

\* the LC types of the form, in three letter cases, and no type
AvailabilityTypes ==
    {NullV, Text(<< >>),
     Text(<<"S", "i", "g", "h", "t">>), Text(<<"s", "i", "g", "h", "t">>), Text(<<"S", "I", "G", "H", "T">>),
     Text(<<"U", "s", "a", "n", "c", "e">>), Text(<<"u", "s", "a", "n", "c", "e">>), Text(<<"U", "S", "A", "N", "C", "E">>),
     Text(<<"S", "t", "a", "n", "d", "b", "y">>), Text(<<"s", "t", "a", "n", "d", "b", "y">>), Text(<<"S", "T", "A", "N", "D", "B", "Y">>),
     Text(<<"R", "e", "v", "o", "l", "v", "i", "n", "g">>), Text(<<"r", "e", "v", "o", "l", "v", "i", "n", "g">>), Text(<<"R", "E", "V", "O", "L", "V", "I", "N", "G">>)}

\* the filled application with each type, expiring after its latest shipment
AvailabilityApps ==
    {[FilledApp EXCEPT !.lc_type = t, !.lc_expiry_date = DateText(100),
                       !.latest_ship_date = DateText(70), !.advising_bank = b] :
        t \in AvailabilityTypes, b \in {NullV, FilledApp.advising_bank}}

\* a call to make: the function and the record it is called on
GenCalls ==
    {[fn |-> "validateLC", data |-> d, rnd |-> 0] : d \in PresenceData \cup WarningData}
    \cup {[fn |-> "generateClauses", data |-> d, rnd |-> 0] : d \in ClauseData}
    \cup {[fn |-> "calculateLCFees", data |-> d, rnd |-> 0] : d \in FeeData}
    \cup {[fn |-> "generateLCDraft", data |-> d, rnd |-> r] :
              d \in DraftData, r \in RandomNumbers}
    \cup {[fn |-> "generateMT700", data |-> d, rnd |-> 0] : d \in MT700Apps}
    \cup {[fn |-> "collValue", data |-> d, rnd |-> 0] : d \in CollateralRows}
    \cup {[fn |-> "numberToWords", data |-> d, rnd |-> 0] : d \in WordAmounts}
    \cup {[fn |-> "drafts", data |-> d, rnd |-> 0] : d \in AvailabilityApps}

GenInit ==
    /\ DecideIdle
    /\ CheckIdle
    /\ ServerIdle
    /\ ExamIdle
    /\ gargs \in GenCalls
    /\ gret = << >>

\* the function fn is called at a time t, no earlier than the call before, and
\* returns Result(t)
Called(fn, Result(_)) ==
    /\ gargs.fn = fn
    /\ Len(gret) < MaxCalls
    /\ \E t \in GenTimes :
          /\ gret # << >> => gret[Len(gret)].now <= t
          /\ gret' = Append(gret, [now |-> t, out |-> Result(t)])
    /\ UNCHANGED <<gargs, decideVars, checkVars, srvVars, examVars>>

ValidateResult(t) == validateLC(gargs.data)

Validate == Called("validateLC", ValidateResult)

ClausesResult(t) == generateClauses(gargs.data)

Compose == Called("generateClauses", ClausesResult)

FeesResult(t) == calculateLCFees(gargs.data, t)

CalculateFees == Called("calculateLCFees", FeesResult)

DraftResult(t) == generateLCDraft(gargs.data, t, gargs.rnd)

GenerateDraft == Called("generateLCDraft", DraftResult)

MT700Result(t) == MT700Lines(gargs.data, t \div HoursPerDay)

SerializeMT700 == Called("generateMT700", MT700Result)

\* lines 623-634 of the decision route: collType and collValue of the row read
CollateralResult(t) ==
    [collType |-> CollType(gargs.data), collValue |-> CollValue(gargs.data, CollType(gargs.data))]

ValueCollateral == Called("collValue", CollateralResult)

WordsResult(t) == numberToWords(gargs.data)

SpellAmount == Called("numberToWords", WordsResult)

\* the MT700 draft and the pre-draft of one application row
BothDraftsResult(t) ==
    [mt700 |-> MT700Lines(gargs.data, t \div HoursPerDay),
     predraft |-> generateLCDraft(PreDraftData(gargs.data), t, gargs.rnd)]

DraftBoth == Called("drafts", BothDraftsResult)

GenNext ==
    \/ ValueCollateral
    \/ DraftBoth
    \/ SpellAmount
    \/ Validate
    \/ Compose
    \/ CalculateFees
    \/ GenerateDraft
    \/ SerializeMT700

SpecGen == GenInit /\ [][GenNext]_vars

---------------------------------------------------------------------------
(* The field validator, validateLC *)

\* the results of the calls of fn made so far
ResultsOf(fn) == IF gargs # Null /\ gargs.fn = fn THEN {gret[i] : i \in 1..Len(gret)} ELSE {}

\* the ten mandatory fields in their order, and their labels
StatedMandatory ==
    <<"applicantName", "beneficiaryName", "lcAmount", "lcCurrency", "lcExpiryDate",
      "portLoading", "portDischarge", "goodsDesc", "paymentTerms", "issuingBank">>

StatedLabel ==
    [applicantName |-> "Applicant Name", beneficiaryName |-> "Beneficiary Name",
     lcAmount |-> "LC Amount", lcCurrency |-> "LC Currency", lcExpiryDate |-> "Expiry Date",
     portLoading |-> "Port of Loading", portDischarge |-> "Port of Discharge",
     goodsDesc |-> "Description of Goods", paymentTerms |-> "Payment Terms",
     issuingBank |-> "Issuing Bank"]

\* not null/undefined, and the trimmed string form neither empty nor '0'
StatedPresent(v) ==
    /\ v \notin {Undef, NullV}
    /\ Trim(StringOf(v)) \notin {<< >>, <<"0">>}

\* the labels of the fields of data that are not present, in mandatory-field order
StatedMissing(data) ==
    LET absent == SelectSeq(StatedMandatory, LAMBDA k : ~StatedPresent(data[k]))
    IN  [i \in 1..Len(absent) |-> StatedLabel[absent[i]]]

\* C11: validateLC reports each of the ten mandatory fields present iff its value is
\* not null/undefined and its trimmed string form is neither empty nor '0'; missing
\* is exactly the labels of the fields that are not present, in mandatory-field
\* order; valid is true iff missing is empty.
C11_MandatoryFields ==
    \A r \in ResultsOf("validateLC") :
        /\ DOMAIN r.out.fieldStatus = {StatedMandatory[i] : i \in 1..Len(StatedMandatory)}
        /\ \A k \in DOMAIN r.out.fieldStatus :
              /\ r.out.fieldStatus[k].present <=> StatedPresent(gargs.data[k])
              /\ r.out.fieldStatus[k].label = StatedLabel[k]
        /\ r.out.missing = StatedMissing(gargs.data)
        /\ r.out.valid <=> (r.out.missing = << >>)
        /\ (\E k \in DOMAIN StatedLabel : ~StatedPresent(gargs.data[k])) => ~r.out.valid

\* C11 witness: validateLC has returned for a record whose amount is the text ' 0 '
\* and whose issuing bank is the same; both labels are missing, in order, and the
\* record is not valid
C11_Witness ==
    \E r \in ResultsOf("validateLC") :
        /\ gargs.data.lcAmount = Text(<<" ", "0", " ">>)
        /\ gargs.data.issuingBank = Text(<<" ", "0", " ">>)
        /\ gargs.data.applicantName = BaseData.applicantName
        /\ r.out.missing = <<"LC Amount", "Issuing Bank">>
        /\ ~r.out.valid

\* the kinds of the warnings of a validation
WarningKinds(v) == {v.warnings[i].kind : i \in 1..Len(v.warnings)}

\* the shipment date of data is on or after its expiry date
ShipsAfterExpiry(data) ==
    /\ DateOf(data.latestShipDate) # Null
    /\ DateOf(data.lcExpiryDate) # Null
    /\ DateOf(data.latestShipDate)[1] >= DateOf(data.lcExpiryDate)[1]

\* the amount of data is a number, and not above zero
AmountNotPositive(data) ==
    ParseFloat(data.lcAmount) # Null /\ ParseFloat(data.lcAmount)[1] <= 0

\* data names a currency code, and the code is not an accepted one
CurrencyNotAccepted(data) ==
    /\ data.lcCurrency.k = "text"
    /\ data.lcCurrency.s # << >>
    /\ ToUpperCase(data.lcCurrency.s) \notin validCurrencies

\* the three warnings, each appended whenever its condition holds
WarningsAppended(data, v) ==
    /\ ShipsAfterExpiry(data) =>
          "Latest shipment date must be before LC expiry date" \in WarningKinds(v)
    /\ AmountNotPositive(data) => "LC Amount must be greater than zero." \in WarningKinds(v)
    /\ CurrencyNotAccepted(data) =>
          "Currency is non-standard. Verify ISO 4217 code." \in WarningKinds(v)

\* C12: validateLC appends a warning whenever the latest-shipment date is on or
\* after the expiry date, whenever the LC amount is <= 0 (an amount of exactly 0
\* included), and whenever the currency code is not in the accepted list; warnings
\* do not block: valid depends only on missing.
C12_WarningsNonBlocking ==
    \A r \in ResultsOf("validateLC") :
        /\ WarningsAppended(gargs.data, r.out)
        /\ r.out.valid <=> (r.out.missing = << >>)

---------------------------------------------------------------------------
(* The draft generator, generateLCDraft *)

\* C13: generateLCDraft returns status ERROR iff validateLC(data).valid is false; an
\* ERROR result carries the validator's missing and warnings as missing_fields and
\* warnings, and no draftText, clauses or feeSchedule; a SUCCESS result carries the
\* validator's warnings unchanged in validationSummary.warnings, so a record that
\* only draws warnings is never refused.
C13_ErrorOnlyWhenInvalid ==
    \A r \in ResultsOf("generateLCDraft") :
        LET validation == validateLC(gargs.data) IN
            /\ r.out.status \in {"ERROR", "SUCCESS"}
            /\ r.out.status = "ERROR" <=> ~validation.valid
            /\ r.out.status = "ERROR" =>
                  /\ r.out.missing_fields = Some(validation.missing)
                  /\ r.out.warnings = Some(validation.warnings)
                  /\ r.out.draftText = Null
                  /\ r.out.clauses = Null
                  /\ r.out.feeSchedule = Null
            /\ r.out.status = "SUCCESS" =>
                  /\ r.out.validationSummary.warnings = validation.warnings
                  /\ r.out.draftText # Null
                  /\ r.out.clauses # Null
                  /\ r.out.feeSchedule # Null
            /\ (validation.missing = << >> /\ validation.warnings # << >>) =>
                  r.out.status = "SUCCESS"

\* C13 witness: a draft was generated for a record with a negative amount, a
\* shipment date on the expiry date and an unknown currency: SUCCESS, with the three
\* warnings in its validation summary
C13_Witness ==
    \E r \in ResultsOf("generateLCDraft") :
        /\ r.out.status = "SUCCESS"
        /\ gargs.data.lcAmount = Num(-5)
        /\ Len(r.out.validationSummary.warnings) = 3
        /\ r.out.draftText # Null

---------------------------------------------------------------------------
(* The clause generator, generateClauses *)

\* the payment-terms text of d in lower case, empty when d has none
StatedTerms(d) == ToLowerCase(TextOrDefault(d.paymentTerms, << >>))

\* the LC type of d in lower case; an unspecified type is the default, Sight
StatedType(d) == ToLowerCase(TextOrDefault(d.lcType, <<"S", "i", "g", "h", "t">>))

\* the wording the first matching rule of the five selects
StatedPayment(d) ==
    LET text == StatedTerms(d)
        type == StatedType(d)
    IN  CASE Includes(text, <<"s", "i", "g", "h", "t">>) \/ type = <<"s", "i", "g", "h", "t">> -> "PAYMENT AT SIGHT"
          [] Includes(text, <<"u", "s", "a", "n", "c", "e">>) \/ Includes(text, <<"d", "a", "y", "s">>) \/ type = <<"u", "s", "a", "n", "c", "e">> ->
                "ACCEPTANCE"
          [] type = <<"s", "t", "a", "n", "d", "b", "y">> -> "STANDBY"
          [] type = <<"r", "e", "v", "o", "l", "v", "i", "n", "g">> -> "REVOLVING"
          [] OTHER -> "payment at the counters"

\* C14: generateClauses chooses the payment clause by the first matching rule: text
\* contains 'sight' or type sight -> sight wording; text contains 'usance' or 'days'
\* or type usance -> acceptance wording with the day count found in the text, 90
\* when it holds none; type standby -> standby wording; type revolving -> revolving
\* wording; otherwise the fallback.  An application of type Standby, Revolving or
\* Usance whose payment-terms text is absent gets the wording of its type.
C14_PaymentClauseOrder ==
    \A r \in ResultsOf("generateClauses") :
        LET clause == r.out.paymentClause IN
            /\ clause.kind = StatedPayment(gargs.data)
            /\ clause.kind = "ACCEPTANCE" =>
                  clause.days = IF dayMatch(StatedTerms(gargs.data)) # Null
                                THEN dayMatch(StatedTerms(gargs.data)) ELSE Some(<<"9", "0">>)
            /\ clause.kind # "ACCEPTANCE" => clause.days = Null

\* C15: for every tolerance >= 0 in the application record, the number 0 included,
\* the tolerance clause states that percentage in both directions ('N% more or N%
\* less') when it is above 0, and states that no tolerance is permitted when it is 0.
C15_ToleranceClause ==
    \A r \in ResultsOf("generateClauses") :
        LET tol == ParseFloat(gargs.data.tolerancePct) IN
            /\ (tol # Null /\ tol[1] > 0) =>
                  r.out.toleranceClause = [kind |-> "more or less", pct |-> tol]
            /\ (tol # Null /\ tol[1] = 0) =>
                  r.out.toleranceClause = [kind |-> "NO tolerance", pct |-> Null]

---------------------------------------------------------------------------
(* The fee calculator, calculateLCFees *)

\* the mid-rate stated for a tenor, in thousandths of a percent
StatedRate(tenorMonths) ==
    CASE tenorMonths <= 3 -> 300
      [] tenorMonths <= 6 -> 600
      [] tenorMonths <= 12 -> 1200
      [] OTHER -> 1550

\* C16: calculateLCFees applies the mid-rate of the first tenor band whose maxMonths
\* is at least tenorMonths: 1..3 -> 0.30, 4..6 -> 0.60, 7..12 -> 1.20, 13 and above
\* -> 1.55, the last band also when no band matches; tenorMonths is at least 1 (an
\* expiry date on or before the day of the call gives 1) and is 3 when the expiry
\* date is missing or unparseable; the rate never decreases as the tenor grows.
C16_TenorBands ==
    \A r \in ResultsOf("calculateLCFees") :
        LET expiry == gargs.data.lcExpiryDate IN
            /\ r.out.tenorMonths >= 1
            /\ r.out.appliedRate = StatedRate(r.out.tenorMonths)
            /\ (~Truthy(expiry) \/ DateOf(expiry) = Null) => r.out.tenorMonths = 3
            /\ (DateOf(expiry) # Null /\ HoursPerDay * DateOf(expiry)[1] <= r.now) =>
                  r.out.tenorMonths = 1
            /\ \A m \in 1..r.out.tenorMonths :
                  /\ BandFor(m).midRate = StatedRate(m)
                  /\ BandFor(m).midRate <= r.out.appliedRate

\* C16 witness: fees were calculated for an expiry so far ahead that no band
\* matches (over 999 months), and the last band's 1.55 was applied
C16_Witness ==
    \E r \in ResultsOf("calculateLCFees") :
        /\ r.out.tenorMonths > 999
        /\ r.out.appliedRate = 1550
        /\ r.out.tenorBand = "Over 1 year"

\* k times a sum of money, for k <= 100
Scaled(m, k) == MoneyOf(m.inr * k, m.sub * k)

\* the sum of money m is amount * rate / 100, for a rate in thousandths of a percent
IsPctOf(m, amount, rate) == m.sub % 100 = 0 /\ m.inr * 100000 + m.sub \div 100 = amount * rate

\* the hundredths h are the sum of money m rounded to two decimals
IsRounded(h, m) ==
    LET over == (h - m.inr * 100) * (SubPerUnit \div 100) - m.sub
    IN  -(SubPerUnit \div 200) < over /\ over <= SubPerUnit \div 200

\* a and b differ by at most 0.01, in hundredths
WithinOneCent(a, b) == a - b \in {-1, 0, 1}

\* C17: for every amount >= 0 the totals calculateLCFees computes are:
\* totalVariableFees = issuance commission + negotiation fee (0.125%) + confirmation
\* premium (0.15%, only with a confirming bank that is non-empty after trim);
\* totalFixedFees = 5000 + 3500 = 8500; subtotal = variable + fixed; GST = 18% of
\* variable + 18% of fixed; grandTotal = subtotal + GST.  The result carries each
\* total rounded to two decimals, where grandTotal is within 0.01 of
\* round2(subtotal x 1.18) and of subtotal + gstAmount; the amendment fee of 2500
\* is in none of them.
C17_FeeTotals ==
    \A r \in ResultsOf("calculateLCFees") :
        LET t == FeeLocals(gargs.data, r.now)
            amount == r.out.lcAmount
            confirmed == /\ gargs.data.confirmingBank.k = "text"
                         /\ Trim(gargs.data.confirmingBank.s) # << >>
            fixed == MoneyOf(5000 + 3500, 0)
        IN  amount >= 0 =>
            /\ IsPctOf(t.issuanceCommission, amount, r.out.appliedRate)
            /\ IsPctOf(t.negotiationFee, amount, 125)
            /\ IsPctOf(t.confirmationPremium, amount, IF confirmed THEN 150 ELSE 0)
            /\ t.totalVariableFees =
                  Plus(Plus(t.issuanceCommission, t.negotiationFee), t.confirmationPremium)
            /\ t.totalFixedFees = fixed
            /\ t.totalFeesBeforeGST = Plus(t.totalVariableFees, fixed)
            /\ Scaled(t.totalGST, 100) = Plus(Scaled(t.totalVariableFees, 18), Scaled(fixed, 18))
            /\ t.grandTotal = Plus(t.totalFeesBeforeGST, t.totalGST)
            /\ IsRounded(r.out.totalVariableFees, t.totalVariableFees)
            /\ r.out.totalFixedFees = 850000
            /\ IsRounded(r.out.subtotal, t.totalFeesBeforeGST)
            /\ r.out.subtotal = r.out.totalVariableFees + r.out.totalFixedFees
            /\ IsRounded(r.out.gstAmount, t.totalGST)
            /\ IsRounded(r.out.grandTotal, t.grandTotal)
            /\ WithinOneCent(r.out.grandTotal, (r.out.subtotal * 118 + 50) \div 100)
            /\ WithinOneCent(r.out.grandTotal, r.out.subtotal + r.out.gstAmount)
            /\ r.out.amendmentFee = 2500
            /\ Len(r.out.breakdown) = IF confirmed THEN 5 ELSE 4

\* C17 witness: fees were calculated for an amount of 1 without a confirming bank;
\* the subtotal is 8500.00, the GST 1530.00 and the grand total, rounded from
\* 10030.005015, is 10030.01
C17_Witness ==
    \E r \in ResultsOf("calculateLCFees") :
        /\ r.out.lcAmount = 1
        /\ r.out.appliedRate = 300
        /\ Len(r.out.breakdown) = 4
        /\ r.out.subtotal = 850000
        /\ r.out.gstAmount = 153000
        /\ r.out.grandTotal = 1003001

\* C17 as stated, read on the totals the result carries: the returned grandTotal is
\* the returned subtotal plus the returned gstAmount, and the returned subtotal is the
\* returned variable plus fixed fees
C17_ReturnedTotalsAddUp ==
    \A r \in ResultsOf("calculateLCFees") :
        r.out.lcAmount >= 0 =>
            /\ r.out.subtotal = r.out.totalVariableFees + r.out.totalFixedFees
            /\ r.out.grandTotal = r.out.subtotal + r.out.gstAmount
            /\ WithinOneCent(r.out.grandTotal, (r.out.subtotal * 118 + 50) \div 100)

\* the 28 tags of an MT700 message, in the order of the wire contract
StatedTags ==
    <<<<":", "2", "7", ":">>,
      <<":", "4", "0", "A", ":">>,
      <<":", "2", "0", ":">>,
      <<":", "3", "1", "C", ":">>,
      <<":", "4", "0", "E", ":">>,
      <<":", "3", "1", "D", ":">>,
      <<":", "5", "0", ":">>,
      <<":", "5", "9", ":">>,
      <<":", "3", "2", "B", ":">>,
      <<":", "3", "9", "A", ":">>,
      <<":", "4", "1", "A", ":">>,
      <<":", "4", "2", "C", ":">>,
      <<":", "4", "2", "A", ":">>,
      <<":", "4", "3", "P", ":">>,
      <<":", "4", "3", "T", ":">>,
      <<":", "4", "4", "E", ":">>,
      <<":", "4", "4", "F", ":">>,
      <<":", "4", "4", "C", ":">>,
      <<":", "4", "4", "B", ":">>,
      <<":", "4", "5", "A", ":">>,
      <<":", "4", "6", "A", ":">>,
      <<":", "4", "7", "A", ":">>,
      <<":", "7", "1", "B", ":">>,
      <<":", "4", "8", ":">>,
      <<":", "4", "9", ":">>,
      <<":", "5", "3", "A", ":">>,
      <<":", "7", "8", ":">>,
      <<":", "7", "2", ":">>>>

\* C18: for every application record, whichever columns are empty or filled (the
\* column values holding no line break), generateMT700 emits each of the 28 tags
\* exactly once and in the fixed order :27: ... :72:, and serializing the same
\* application again yields the same tag sequence and count
C18_TagOrder ==
    \A r \in ResultsOf("generateMT700") :
        /\ TagsOf(r.out) = StatedTags
        /\ Len(TagsOf(r.out)) = 28
        /\ \A tag \in {StatedTags[i] : i \in 1..28} :
              Cardinality({j \in 1..Len(r.out) : TagOf(r.out[j]) = Some(tag)}) = 1
        /\ \A q \in ResultsOf("generateMT700") :
              /\ TagsOf(q.out) = TagsOf(r.out)
              /\ Len(TagsOf(q.out)) = Len(TagsOf(r.out))

\* C18 witness: the application with every column empty was serialized twice, at
\* two times, and the second message carries the 28 tags
C18_Witness ==
    /\ gargs # Null
    /\ gargs.fn = "generateMT700"
    /\ gargs.data = EmptyApp
    /\ Len(gret) = 2
    /\ gret[1].now # gret[2].now
    /\ TagsOf(gret[2].out) = StatedTags

---------------------------------------------------------------------------
(* Amendment requests and approvals served concurrently *)

\* the amendment requests made
MaxAmendments == 2

\* the approval requests made
MaxApprovalRequests == 2

\* the references the requests name: two applications and a reference without one
NumberedRefs == {"BRC-LC-2024-71842", "BRC-LC-2024-43900", MissingRef}

\* every client may request and approve; a handler runs up to its next await
AmendNext ==
    \E c \in Clients :
        \/ \E r \in NumberedRefs : AmendRequest(c, r, MaxAmendments)
        \/ AmendMax(c) \/ AmendInsert(c) \/ AmendNotify(c) \/ AmendAudit(c)
        \/ \E r \in NumberedRefs : ApproveRequest(c, r, MaxApprovalRequests)
        \/ ApproveField(c) \/ ApproveCount(c) \/ ApproveStatus(c) \/ ApproveAudit(c)

SpecAmend == Init /\ [][AmendNext]_vars

\* the amendments of reference r that are pending
StatedPending(r) ==
    {amendments[i] : i \in {j \in 1..Len(amendments) :
                               amendments[j].ref = r /\ amendments[j].status = "Pending"}}

\* a is a pending amendment of r and none of them has a higher number
IsHighestPending(a, r) ==
    /\ a \in StatedPending(r)
    /\ \A b \in StatedPending(r) : b.amendment_number <= a.amendment_number

\* the rows of amendments that a step changes
ChangedAmendments ==
    {i \in 1..Len(amendments) : i > Len(amendments') \/ amendments'[i] # amendments[i]}

\* the application columns that a step changes, as <<ref, column>>
ChangedColumns ==
    {rc \in (DOMAIN apps) \X (DOMAIN apps["BRC-LC-2024-71842"]) :
        apps'[rc[1]][rc[2]] # apps[rc[1]][rc[2]]}

\* the steps of an approval that client c runs
C19_Request(c) ==
    \A r \in NumberedRefs :
        ApproveRequest(c, r, MaxApprovalRequests) =>
            /\ UNCHANGED dbVars
            /\ IF StatedPending(r) = {}
               THEN resp'[c] = NotFound /\ pc'[c] = "idle"
               ELSE /\ IsHighestPending(loc'[c].amendment, r)
                    /\ pc'[c] = IF loc'[c].amendment.field_changed \in DOMAIN fieldMap
                                THEN "approve:field" ELSE "approve:count"

C19_Field(c) ==
    (pc[c] = "approve:field" /\ pc'[c] # pc[c]) =>
        LET l == loc[c]
            column == fieldMap[l.amendment.field_changed]
        IN  /\ apps'[l.ref][column] = Affinity(column, l.amendment.new_value)
            /\ ChangedColumns \subseteq {<<l.ref, column>>}
            /\ UNCHANGED <<actions, amendments, notifications>>
            /\ pc'[c] = "approve:count"

C19_Count(c) ==
    (pc[c] = "approve:count" /\ pc'[c] # pc[c]) =>
        LET l == loc[c] IN
            /\ ParseFloatOr0(apps'[l.ref].amendment_count)
                   = ParseFloatOr0(apps[l.ref].amendment_count) + 1
            /\ ChangedColumns = {<<l.ref, "amendment_count">>}
            /\ UNCHANGED <<actions, amendments, notifications>>

C19_Status(c) ==
    (pc[c] = "approve:status" /\ pc'[c] # pc[c]) =>
        LET l == loc[c]
            id == l.amendment.id
        IN  /\ UNCHANGED <<apps, actions, notifications>>
            /\ Len(amendments') = Len(amendments)
            /\ ChangedAmendments \subseteq {id}
            /\ amendments'[id].status = "Approved"
            /\ amendments'[id].mt707_draft # Null
            /\ amendments'[id].mt707_draft[1].number = l.amendment.amendment_number
            /\ amendments'[id].mt707_draft[1].amended = l.amendment.new_value
            /\ amendments[id].status = "Pending" =>
                  /\ ChangedAmendments = {id}
                  /\ amendments[id] = l.amendment
                  /\ [amendments'[id] EXCEPT !.status = "Pending", !.approved_by = Null,
                                             !.approved_at = Null, !.mt707_draft = Null]
                        = amendments[id]

C19_Audit(c) ==
    (pc[c] = "approve:audit" /\ pc'[c] # pc[c]) =>
        /\ UNCHANGED <<apps, amendments, notifications>>
        /\ Len(actions') = Len(actions) + 1
        /\ resp'[c].status = 200
        /\ resp'[c].amendmentNumber = loc[c].amendment.amendment_number

\* no step takes an Approved amendment back to Pending or removes a row
C19_ApprovedStays ==
    /\ Len(amendments') >= Len(amendments)
    /\ \A i \in 1..Len(amendments) :
          amendments[i].status = "Approved" => amendments'[i].status = "Approved"

NumbersOf(r) ==
    [n \in {amendments[i].amendment_number : i \in AmendmentsOf(r)} |->
        Cardinality({i \in AmendmentsOf(r) : amendments[i].amendment_number = n})]

\* C20: amendments are numbered sequentially per application: in every state, requests
\* interleaved or not, the n amendments stored for a reference carry the numbers 1..n,
\* each once, whatever amendments other references have
C20_SequentialNumbers ==
    \A r \in NumberedRefs :
        LET n == Cardinality(AmendmentsOf(r)) IN
            /\ DOMAIN NumbersOf(r) = 1..n
            /\ \A k \in 1..n : NumbersOf(r)[k] = 1

\* the amount a column holds, 0 for a missing or non-numeric one
StatedAmount(v) == IF v.k = "num" THEN v.n ELSE 0

\* the type-specific amount column of a collateral type, the generic one for the rest
StatedColumn(collType) ==
    CASE collType = FD -> "fd_amount"
      [] collType = CASH -> "cash_margin_amount"
      [] collType \in {LIQUID_SECURITY, GOVT_BOND} -> "sec_market_value"
      [] OTHER -> "collateral_value"

\* C23: the collateral value fed to the decision is the type-specific amount (FD:
\* fd_amount, CASH: cash_margin_amount, LIQUID_SECURITY and GOVT_BOND:
\* sec_market_value), falling back to collateral_value only when that amount is
\* missing or zero; for every other type it is collateral_value; a non-numeric
\* value counts as 0
C23_CollateralValue ==
    \A r \in ResultsOf("collValue") :
        LET row == gargs.data
            specific == StatedAmount(row[StatedColumn(r.out.collType)])
        IN  r.out.collValue =
                IF specific # 0 THEN specific ELSE StatedAmount(row.collateral_value)

\* the words of a number below 100
StatedBelow100(n) ==
    IF n = 0 THEN << >>
    ELSE IF n < 20 THEN <<ones[n]>>
    ELSE <<tens[n \div 10]>> \o (IF n % 10 = 0 THEN << >> ELSE <<ones[n % 10]>>)

\* the words of a number below 1000: hundreds, then AND and the rest
StatedBelow1000(n) ==
    IF n < 100 THEN StatedBelow100(n)
    ELSE <<ones[n \div 100], "HUNDRED">>
            \o (IF n % 100 = 0 THEN << >> ELSE <<"AND">> \o StatedBelow100(n % 100))

\* the Indian-scale decomposition of n < 100 crore: crore, lakh, thousand, and the
\* last three digits
StatedWords(n) ==
    LET crore == n \div 10000000
        lakh == (n % 10000000) \div 100000
        thousand == (n % 100000) \div 1000
    IN  (IF crore = 0 THEN << >> ELSE StatedBelow100(crore) \o <<"CRORE">>)
        \o (IF lakh = 0 THEN << >> ELSE StatedBelow100(lakh) \o <<"LAKH">>)
        \o (IF thousand = 0 THEN << >> ELSE StatedBelow100(thousand) \o <<"THOUSAND">>)
        \o StatedBelow1000(n % 1000)

\* the words of the integer part: for every amount of integer part n >= 1 they are
\* the Indian-scale decomposition of n, and 1234567 reads TWELVE LAKH THIRTY FOUR
\* THOUSAND FIVE HUNDRED AND SIXTY SEVEN
C24_IntegerWords ==
    \A r \in ResultsOf("numberToWords") :
        /\ (gargs.data.k = "num" /\ gargs.data.n >= 100) =>
              r.out.words = StatedWords(gargs.data.n \div 100)
        /\ (gargs.data.k = "num" /\ gargs.data.n \div 100 = 1234567) =>
              r.out.words = <<"TWELVE", "LAKH", "THIRTY", "FOUR", "THOUSAND", "FIVE",
                              "HUNDRED", "AND", "SIXTY", "SEVEN">>

\* C24: numberToWords gives, for every amount of integer part n >= 1, the
\* Indian-scale decomposition of n; every amount with a non-zero fractional part,
\* amounts below 1 included, has ' AND NN/100' appended, NN the number of
\* hundredths; zero or invalid input yields ZERO
C24_NumberToWords ==
    /\ C24_IntegerWords
    /\ \A r \in ResultsOf("numberToWords") :
          IF gargs.data.k # "num" \/ gargs.data.n = 0
          THEN r.out = [words |-> <<"ZERO">>, fraction |-> Null]
          ELSE r.out.fraction =
                  IF gargs.data.n % 100 # 0 THEN Some(gargs.data.n % 100) ELSE Null

\* the word after 'BY' under tag :41A: of an MT700 message
StatedByWord(lines) ==
    LET i == CHOOSE j \in 1..Len(lines) : TagOf(lines[j]) = Some(<<":", "4", "1", "A", ":">>)
    IN  SubSeq(lines[i + 2], 4, Len(lines[i + 2]))

\* C29: for every LC type value (Sight, Usance, Standby, Revolving, unspecified, in
\* any letter case) the word after 'BY' in tag :41A: of the MT700 draft equals the
\* AVAILABLE BY word of the pre-draft of the same application
C29_SameAvailability ==
    \A r \in ResultsOf("drafts") :
        /\ r.out.predraft.status = "SUCCESS"
        /\ StatedByWord(r.out.mt700) \in {<<"P", "A", "Y", "M", "E", "N", "T">>, <<"A", "C", "C", "E", "P", "T", "A", "N", "C", "E">>, <<"N", "E", "G", "O", "T", "I", "A", "T", "I", "O", "N">>}
        /\ StatedByWord(r.out.mt700) = r.out.predraft.structuredLC[1].availableBy

\* C27: in every reachable state, freshly seeded demo applications and applications
\* with an approved 'LC Amount' amendment included, an application with stp_decision
\* YES has eligible_collateral_value >= lc_amount, and one with stp_decision REVIEW
\* and a known collateral type has eligible_collateral_value >= 0.75 x lc_amount
\* (the eligible value is stored in hundredths)
C27_DecisionMatchesFigures ==
    \A ref \in DOMAIN apps :
        LET row == apps[ref]
            lcAmount == ParseFloatOr0(row.lc_amount)
        IN  /\ row.stp_decision = "YES" => row.eligible_collateral_value \div 100 >= lcAmount
            /\ (row.stp_decision = "REVIEW" /\ CollType(row) \in KnownTypes) =>
                  4 * row.eligible_collateral_value >= 300 * lcAmount

---------------------------------------------------------------------------
(* Decision runs among requests for the MT700 draft *)

DraftNext ==
    \E c \in Clients :
        \/ DecisionRead(c) \/ DecisionUpdate(c) \/ DecisionAudit(c) \/ DecisionFail(c)
        \/ Mt700Read(c) \/ Mt700Store(c)

SpecDraft == Init /\ [][DraftNext]_vars

\* the draft columns of a row
DraftColumns(row) == <<row.mt700_draft, row.mt700_generated_at>>

C28_Step ==
    \A c \in Clients :
        /\ (UpdateStep(c) /\ loc[c].result.decision \in {"REVIEW", "NO"}) =>
              LET old == apps[loc[c].ref]
                  new == apps'[loc[c].ref]
              IN  DraftColumns(old) = loc[c].draftRead =>
                      DraftColumns(new) = DraftColumns(old)
        /\ (pc[c] = "decision:audit" /\ pc'[c] = "idle") => apps' = apps
        /\ (pc[c] = "idle" /\ pc'[c] = "mt700:store") =>
              /\ apps[loc'[c].ref].mt700_draft = Null
              /\ apps' = apps
        /\ (/\ issued'["mt700"] = issued["mt700"] + 1
            /\ pc[c] = "idle" /\ pc'[c] = "idle"
            /\ resp'[c] # resp[c] /\ resp'[c] # Null /\ resp'[c].status = 200) =>
              /\ apps' = apps
              /\ resp'[c].onDemand = FALSE
              /\ resp'[c].draft # Null
              /\ <<resp'[c].draft, resp'[c].generatedAt>> = DraftColumns(apps[resp'[c].ref])

---------------------------------------------------------------------------
(* Submissions and examinations served concurrently *)

\* the server after POST /api/documents/:ref has stored one presentation of ExamRef
\* (lines 926-953 run once, at time 0)
ExamInit ==
    /\ DecideIdle
    /\ CheckIdle
    /\ GenIdle
    /\ \E a \in SeqApps, d \in SeqBodies :
          /\ apps = [r \in {ExamRef} |->
                        [a EXCEPT !.doc_presentation_status = Some("Submitted")]]
          /\ presentations = <<PresentationRow(ExamRef, 1, 0, d)>>
    /\ discrepancies = << >>
    /\ examined = [r \in TargetRefs |-> Null]
    /\ actions = <<[ref |-> ExamRef, action |-> <<"Documents Submitted">>,
                    action_type |-> "DOCUMENT_SUBMISSION", officer |-> Submitter,
                    metadata |-> Null, action_at |-> 0]>>
    /\ amendments = << >>
    /\ notifications = <<[ref |-> ExamRef, type |-> "DOC_SUBMITTED", sent_at |-> 0]>>
    /\ clock = 0
    /\ pc = [c \in Clients |-> "idle"]
    /\ loc = [c \in Clients |-> Null]
    /\ resp = [c \in Clients |-> Null]
    /\ issued = [r \in Routes |-> IF r = "documents" THEN 1 ELSE 0]
    /\ lastRead = [r \in TargetRefs |-> Null]
    /\ decidedFrom = [r \in TargetRefs |-> Null]

\* every client may examine; a handler runs up to its next await
ExamNext ==
    \E c \in Clients :
        \/ ExamRead(c) \/ ExamPresentation(c) \/ ExamDelete(c) \/ ExamInsert(c)
        \/ ExamStatus(c) \/ ExamAppStatus(c) \/ ExamAudit(c)

SpecExam == ExamInit /\ [][ExamNext]_vars

\* what a stored discrepancy row says
Finding(row) ==
    [field_name |-> row.field_name, lc_value |-> row.lc_value, doc_value |-> row.doc_value,
     severity |-> row.severity, rule_matched |-> row.rule_matched]

\* the findings stored for ref, in insertion order
StoredFindings(ref) ==
    LET rows == DiscrepanciesOf(discrepancies, ref)
    IN  [i \in 1..Len(rows) |-> Finding(rows[i])]

\* client c holds the response of a completed examination of ref
Examined(c, ref) ==
    /\ pc[c] = "idle"
    /\ resp[c] # Null
    /\ resp[c].status = 200
    /\ resp[c].route = "examine"
    /\ resp[c].ref = ref

\* C26: after two POST /api/examine/:ref requests for one reference have both
\* completed, however their delete and insert steps interleaved, the rows stored for
\* the reference are exactly one run's rule-evaluation result, and no discrepancy is
\* stored twice
C26_OneRunsResult ==
    (\A c \in Clients : Examined(c, ExamRef)) =>
        /\ \E c \in Clients :
              StoredFindings(ExamRef) =
                  [i \in 1..Len(resp[c].discrepancies) |-> Finding(resp[c].discrepancies[i])]
        /\ \A i, j \in 1..Len(StoredFindings(ExamRef)) :
              StoredFindings(ExamRef)[i] = StoredFindings(ExamRef)[j] => i = j

---------------------------------------------------------------------------
(* POST /api/applications - an application is filed *)

MaxCreates == 1

\* the request bodies filed: an amount, a collateral type, a deposit
CreateBodies ==
    {[lcAmount |-> Num(100), collateralPrimaryType |-> Text(FD), fdAmount |-> Num(200)],
     [lcAmount |-> Num(100), collateralPrimaryType |-> NullV, fdAmount |-> NullV]}

\* lines 504-558: the row inserted for body d (the columns the INSERT does not name
\* take their schema defaults)
CreatedRow(ref, d) ==
    [BlankRow EXCEPT
        !.ref = ref, !.status = "Pending Review",
        !.lc_amount = Num(ParseFloatOr0(d.lcAmount)), !.tolerance_pct = Num(5),
        !.lc_currency = Text(<< >>), !.lc_expiry_date = Text(<< >>),
        !.latest_ship_date = Text(<< >>), !.goods_desc = Text(<< >>),
        !.port_loading = Text(<< >>), !.port_discharge = Text(<< >>),
        !.payment_terms = Text(<< >>), !.special_instructions = Text(<< >>),
        !.advising_bank = Text(<< >>), !.beneficiary_name = Text(<< >>),
        !.documents = JsonArray(<< >>),
        !.collateral_primary_type = JsOr(d.collateralPrimaryType, Text(NONE)),
        !.collateral_value = Num(0), !.fd_amount = Num(ParseFloatOr0(d.fdAmount)),
        !.sec_market_value = Num(0), !.cash_margin_amount = Num(0)]

\* lines 499-560
CreateApplication(c) ==
    /\ pc[c] = "idle"
    /\ MayIssue("create", MaxCreates)
    /\ Issue("create")
    /\ \E d \in CreateBodies, now \in 0..MaxClock :
          /\ Now(now)
          /\ IF CreatedRef \in DOMAIN apps
             THEN /\ Respond(c, Status500)
                  /\ UNCHANGED apps
             ELSE /\ apps' = [r \in DOMAIN apps \cup {CreatedRef} |->
                                IF r = CreatedRef THEN CreatedRow(CreatedRef, d) ELSE apps[r]]
                  /\ Respond(c, [status |-> 201, success |-> TRUE, route |-> "create",
                                 ref |-> CreatedRef])
    /\ UNCHANGED <<genVars, decideVars, checkVars, examVars, actions, amendments, notifications,
                   lastRead, decidedFrom>>

---------------------------------------------------------------------------
(* PATCH /api/applications/:ref - status and officer notes *)

MaxStatusRequests == 2

\* the references the officer routes are called with
OfficeRefs == {"BRC-LC-2024-71842", MissingRef}

\* request bodies: the officer's action (part_000:369-372), notes only
\* (part_000:395-398), and direct calls
StatusBodies ==
    {[status |-> Some("Under Review"), officerNotes |-> Some("ok"), actionBy |-> "Riya Mehta"],
     [status |-> Null, officerNotes |-> Some("ok"), actionBy |-> "Riya Mehta"],
     [status |-> Some("Archived"), officerNotes |-> Null, actionBy |-> ""],
     [status |-> Some(""), officerNotes |-> Some(""), actionBy |-> ""]}

\* actionBy || 'Barclays Officer'
StatusOfficer(o) == IF o = "" THEN "Barclays Officer" ELSE o

\* if (status): the value is present and not the empty string
StatusGiven(body) == body.status # Null /\ body.status[1] # ""

\* lines 571-576: the columns the UPDATE sets
StatusColumns(row, body, officer, now) ==
    [row EXCEPT !.status = IF StatusGiven(body) THEN body.status[1] ELSE @,
                !.officer_notes = IF body.officerNotes # Null THEN body.officerNotes ELSE @,
                !.action_date = Some(now), !.action_by = Some(officer)]

\* lines 565-570
StatusRead(c) ==
    /\ pc[c] = "idle"
    /\ MayIssue("status", MaxStatusRequests)
    /\ Issue("status")
    /\ \E r \in OfficeRefs, body \in StatusBodies, now \in 0..MaxClock :
          /\ Now(now)
          /\ IF r \notin DOMAIN apps
             THEN Respond(c, NotFound)
             ELSE Await(c, "status:update",
                     [ref |-> r, now |-> now, officer |-> StatusOfficer(body.actionBy),
                      body |-> body, before |-> apps[r].status])
    /\ UNCHANGED <<genVars, decideVars, checkVars, examVars, dbVars, lastRead, decidedFrom>>

\* lines 571-576
StatusUpdate(c) ==
    /\ pc[c] = "status:update"
    /\ LET l == loc[c] IN
          apps' = [apps EXCEPT ![l.ref] = StatusColumns(@, l.body, l.officer, l.now)]
    /\ Await(c, "status:audit", loc[c])
    /\ UNCHANGED <<genVars, decideVars, checkVars, examVars, actions, amendments, notifications,
                   clock, issued, lastRead, decidedFrom>>

\* lines 577-579
StatusAudit(c) ==
    /\ pc[c] = "status:audit"
    /\ LET l == loc[c] IN
          /\ actions' = Append(actions,
                [ref |-> l.ref,
                 action |-> <<IF StatusGiven(l.body) THEN l.body.status[1] ELSE "Note Added">>,
                 action_type |-> "STATUS_CHANGE", officer |-> l.officer,
                 metadata |-> Null, action_at |-> l.now])
          /\ Respond(c, [status |-> 200, success |-> TRUE, route |-> "status",
                         ref |-> l.ref, body |-> l.body, before |-> l.before])
    /\ UNCHANGED <<genVars, decideVars, checkVars, examVars, apps, amendments, notifications,
                   clock, issued, lastRead, decidedFrom>>

---------------------------------------------------------------------------
(* POST /api/close/:ref - the letter of credit is closed *)

MaxCloseRequests == 1

\* req.body.officer || 'Officer'
CloseOfficer(o) == IF o = "" THEN "Officer" ELSE o

\* line 1334: the UPDATE, which changes no row when the reference is not stored
CloseUpdate(c) ==
    /\ pc[c] = "idle"
    /\ MayIssue("close", MaxCloseRequests)
    /\ Issue("close")
    /\ \E r \in OfficeRefs, now \in 0..MaxClock :
          /\ Now(now)
          /\ apps' = [a \in DOMAIN apps |->
                        IF a = r
                        THEN [apps[a] EXCEPT !.status = "Closed",
                                             !.payment_status = Some("Closed"),
                                             !.lc_closed_at = Some(now)]
                        ELSE apps[a]]
          /\ Await(c, "close:audit", [ref |-> r, now |-> now, officer |-> CloseOfficer("")])
    /\ UNCHANGED <<genVars, decideVars, checkVars, examVars, actions, amendments, notifications,
                   lastRead, decidedFrom>>

\* lines 1335-1337
CloseAudit(c) ==
    /\ pc[c] = "close:audit"
    /\ LET l == loc[c] IN
          /\ actions' = Append(actions,
                [ref |-> l.ref, action |-> <<"LC Closed">>,
                 action_type |-> "LC_CLOSE", officer |-> l.officer,
                 metadata |-> Null, action_at |-> l.now])
          /\ Respond(c, [status |-> 200, success |-> TRUE, route |-> "close",
                         ref |-> l.ref, closedAt |-> l.now])
    /\ UNCHANGED <<genVars, decideVars, checkVars, examVars, apps, amendments, notifications,
                   clock, issued, lastRead, decidedFrom>>

---------------------------------------------------------------------------
(* PATCH /api/compliance/:ref - step 6: KYC, sanctions and AML statuses *)

MaxComplianceRequests == 2

\* the five statuses of a request body, each absent (undefined) or given
NoFlags ==
    [kyc |-> Null, sanctionsApplicant |-> Null, sanctionsBeneficiary |-> Null,
     sanctionsCountryRisk |-> Null, aml |-> Null]

\* request bodies: one toggle of the officer's panel (part_000:518-522), all five
\* statuses at once, and none
ComplianceBodies ==
    {[NoFlags EXCEPT !.kyc = Some(v)] : v \in {"Cleared", "Pending", "Failed"}}
      \cup {[NoFlags EXCEPT !.aml = Some("Cleared")],
            [kyc |-> Some("Cleared"), sanctionsApplicant |-> Some("Cleared"),
             sanctionsBeneficiary |-> Some("Cleared"),
             sanctionsCountryRisk |-> Some("Cleared"), aml |-> Some("Cleared")],
            NoFlags}

\* officer || 'Compliance Officer'
ComplianceOfficer(o) == IF o = "" THEN "Compliance Officer" ELSE o

\* a ?? b.column, b being the row read or undefined
Coalesce(given, row, column) == IF given # Null THEN given[1] ELSE row[1][column]

\* lines 599-603 throw a TypeError when the row is undefined and a status is absent
ReadsMissingRow(body, row) ==
    row = Null /\ \E f \in DOMAIN body : body[f] = Null

\* the five statuses of a row
FlagsOf(row) ==
    <<row.kyc_status, row.sanctions_applicant, row.sanctions_beneficiary,
      row.sanctions_country_risk, row.aml_status>>

\* lines 599-604: every status, given or read, is 'Cleared'
AllCleared(body, row) ==
    /\ Coalesce(body.kyc, row, "kyc_status") = "Cleared"
    /\ Coalesce(body.sanctionsApplicant, row, "sanctions_applicant") = "Cleared"
    /\ Coalesce(body.sanctionsBeneficiary, row, "sanctions_beneficiary") = "Cleared"
    /\ Coalesce(body.sanctionsCountryRisk, row, "sanctions_country_risk") = "Cleared"
    /\ Coalesce(body.aml, row, "aml_status") = "Cleared"

\* lines 590-606: the columns the UPDATE sets
ComplianceColumns(row, body, cleared, by, now) ==
    [row EXCEPT
        !.kyc_status = IF body.kyc # Null THEN body.kyc[1] ELSE @,
        !.sanctions_applicant =
            IF body.sanctionsApplicant # Null THEN body.sanctionsApplicant[1] ELSE @,
        !.sanctions_beneficiary =
            IF body.sanctionsBeneficiary # Null THEN body.sanctionsBeneficiary[1] ELSE @,
        !.sanctions_country_risk =
            IF body.sanctionsCountryRisk # Null THEN body.sanctionsCountryRisk[1] ELSE @,
        !.aml_status = IF body.aml # Null THEN body.aml[1] ELSE @,
        !.compliance_cleared_at = IF cleared THEN Some(now) ELSE @,
        !.compliance_cleared_by = IF cleared THEN Some(by) ELSE @]

\* lines 585-607: the SELECT and everything computed before the UPDATE is awaited,
\* for at most max requests that name a reference of refs and carry a body of bodies
ComplianceRequest(c, refs, bodies, max) ==
    /\ pc[c] = "idle"
    /\ MayIssue("compliance", max)
    /\ Issue("compliance")
    /\ \E r \in refs, body \in bodies, now \in 0..MaxClock :
          /\ Now(now)
          /\ LET row == IF r \in DOMAIN apps THEN Some(apps[r]) ELSE Null IN
                IF ReadsMissingRow(body, row)
                THEN Respond(c, Status500)
                ELSE Await(c, "compliance:update",
                        [ref |-> r, now |-> now, by |-> ComplianceOfficer("Riya Mehta"),
                         body |-> body, cleared |-> AllCleared(body, row)])
    /\ UNCHANGED <<genVars, decideVars, checkVars, examVars, dbVars, lastRead, decidedFrom>>

ComplianceRead(c) ==
    ComplianceRequest(c, OfficeRefs, ComplianceBodies, MaxComplianceRequests)

\* line 608: the UPDATE; with no column to set the statement is malformed and the
\* catch block answers
ComplianceUpdate(c) ==
    /\ pc[c] = "compliance:update"
    /\ LET l == loc[c] IN
          IF l.body = NoFlags /\ ~l.cleared
          THEN /\ Respond(c, Status500)
               /\ UNCHANGED apps
          ELSE /\ apps' = [a \in DOMAIN apps |->
                             IF a = l.ref
                             THEN ComplianceColumns(apps[a], l.body, l.cleared, l.by, l.now)
                             ELSE apps[a]]
               /\ Await(c, "compliance:audit", l)
    /\ UNCHANGED <<genVars, decideVars, checkVars, examVars, actions, amendments, notifications,
                   clock, issued, lastRead, decidedFrom>>

\* lines 609-611
ComplianceAudit(c) ==
    /\ pc[c] = "compliance:audit"
    /\ LET l == loc[c] IN
          /\ actions' = Append(actions,
                [ref |-> l.ref, action |-> <<"Compliance Updated">>,
                 action_type |-> "COMPLIANCE", officer |-> l.by,
                 metadata |-> l.body, action_at |-> l.now])
          /\ Respond(c, [status |-> 200, success |-> TRUE, route |-> "compliance",
                         ref |-> l.ref])
    /\ UNCHANGED <<genVars, decideVars, checkVars, examVars, apps, amendments, notifications,
                   clock, issued, lastRead, decidedFrom>>

---------------------------------------------------------------------------
(* Specification SpecOffice: applications filed, reviewed and closed *)

OfficeNext ==
    \E c \in Clients :
        \/ CreateApplication(c)
        \/ StatusRead(c) \/ StatusUpdate(c) \/ StatusAudit(c)
        \/ CloseUpdate(c) \/ CloseAudit(c)

SpecOffice == Init /\ [][OfficeNext]_vars

---------------------------------------------------------------------------
(* Specification SpecCompliance: applications screened and closed *)

ComplianceNext ==
    \E c \in Clients :
        \/ ComplianceRead(c) \/ ComplianceUpdate(c) \/ ComplianceAudit(c)
        \/ CloseUpdate(c) \/ CloseAudit(c)

SpecCompliance == Init /\ [][ComplianceNext]_vars

---------------------------------------------------------------------------
(* Specification SpecScreen: an application filed and screened by one client, *)
(* decisions run by the other *)

MaxScreenings == 1

\* the client that files and screens
ScreenClients == {"c1"}

\* the screening of the application filed: every status cleared, or KYC failed
ScreenBodies ==
    {[kyc |-> Some("Cleared"), sanctionsApplicant |-> Some("Cleared"),
      sanctionsBeneficiary |-> Some("Cleared"),
      sanctionsCountryRisk |-> Some("Cleared"), aml |-> Some("Cleared")],
     [NoFlags EXCEPT !.kyc = Some("Failed")]}

ScreenRead(c) == ComplianceRequest(c, {CreatedRef}, ScreenBodies, MaxScreenings)

ScreenNext ==
    \/ \E c \in ScreenClients :
          \/ CreateApplication(c)
          \/ ScreenRead(c) \/ ComplianceUpdate(c) \/ ComplianceAudit(c)
    \/ \E c \in Clients \ ScreenClients :
          DecisionRead(c) \/ DecisionUpdate(c) \/ DecisionAudit(c) \/ DecisionFail(c)

SpecScreen == Init /\ [][ScreenNext]_vars

---------------------------------------------------------------------------
(* The lifecycle status, ownership of rows, and the compliance marker *)

\* the lifecycle statuses the specification names
StatedStatuses ==
    {"Pending Review", "Under Review", "Approved", "Rejected", "More Info Required",
     "Sent to Advising Bank", "Closed"}

\* C21: the lifecycle status of every application is always one of Pending Review,
\* Under Review, Approved, Rejected, More Info Required, Sent to Advising Bank and
\* Closed: an application is created with Pending Review, no PATCH
\* /api/applications/:ref or POST /api/close/:ref stores a status outside the set,
\* and a PATCH that carries only officer notes leaves the status as it was
C21_LifecycleStatus ==
    [][/\ \A r \in DOMAIN apps : apps[r].status \in StatedStatuses
       /\ \A r \in DOMAIN apps' : apps'[r].status \in StatedStatuses
       /\ \A r \in DOMAIN apps' \ DOMAIN apps : apps'[r].status = "Pending Review"
       /\ \A c \in Clients :
             (pc[c] = "status:update" /\ pc'[c] = "status:audit"
                /\ loc[c].body.status = Null)
               => apps'[loc[c].ref].status = apps[loc[c].ref].status]_vars

\* the references of the rows stored in the tables that belong to applications
OwnedRefs ==
    {actions[i].ref : i \in 1..Len(actions)}
      \cup {presentations[i].ref : i \in 1..Len(presentations)}
      \cup {discrepancies[i].ref : i \in 1..Len(discrepancies)}
      \cup {amendments[i].ref : i \in 1..Len(amendments)}
      \cup {notifications[i].ref : i \in 1..Len(notifications)}

\* C22: every audit action, presentation, discrepancy, amendment and notification
\* row is keyed to an existing application: a request of a write route that names a
\* reference that does not exist creates no row in any of these tables
C22_RowsKeyedToApplications == OwnedRefs \subseteq DOMAIN apps

\* the application carries the marker of clearance
MarkedCleared(row) == row.compliance_cleared_at # Null /\ row.compliance_cleared_by # Null

\* a PATCH /api/compliance/:ref for ref has completed
Screened(ref) ==
    \E i \in 1..Len(actions) : actions[i].ref = ref /\ actions[i].action_type = "COMPLIANCE"

\* C25: after any sequence of PATCH /api/compliance/:ref updates the application is
\* recorded as compliance-cleared (compliance_cleared_at and compliance_cleared_by
\* set) if and only if its KYC, sanctions-applicant, sanctions-beneficiary,
\* country-risk and AML statuses are all 'Cleared' now; a status set back to Pending
\* or Failed after clearance leaves no marker
C25_ClearedIffAllCleared ==
    (\A c \in Clients : pc[c] = "idle") =>
        \A r \in DOMAIN apps :
            Screened(r) =>
                (MarkedCleared(apps[r]) <=>
                    \A i \in 1..5 : FlagsOf(apps[r])[i] = "Cleared")

\* C30: a decision run yields YES only for an application whose KYC, sanctions
\* (applicant, beneficiary, country risk) and AML statuses are all 'Cleared' when
\* the run reads it; with any status Pending or Failed the run does not yield YES
C30_YesOnlyWhenCleared ==
    [][\A c \in Clients :
          (pc[c] = "idle" /\ pc'[c] = "decision:update"
             /\ loc'[c].result.decision = "YES")
            => \A i \in 1..5 : FlagsOf(apps[loc'[c].ref])[i] = "Cleared"]_vars

====
